---- MODULE Spec2Model ----
(***************************************************************************)
(* Browser session pool, the fetchers' acquire/release discipline, the     *)
(* content cache and cache-key generation of the residential fetch         *)
(* service.                                                                *)
(*                                                                         *)
(* The process is single-threaded and event-driven: every action below is  *)
(* one run-to-completion slice of a handler, from one suspension point     *)
(* (await) to the next. Concurrent requests interleave only at awaits.     *)
(***************************************************************************)
EXTENDS Integers, Sequences, FiniteSets, TLC

(***************************************************************************)
(* Bounds and settings                                                     *)
(***************************************************************************)

\* BROWSER_MAX_CONTEXTS, the deployment's cap on concurrent sessions
\* (default 3); the model is checked with the setting at 2 and at 3.
browserMaxContexts == 2

\* Number of fetch requests of one run; each request runs once.
NumFetches == browserMaxContexts + 1

\* browserContextTimeoutMs counted in 100 ms poll intervals.
TimeoutTicks == 2

\* CACHE_MAX_SIZE, the deployment's cache capacity (default 100).
cacheMaxSize == 2

\* cacheTtlSeconds * 1000, counted in clock ticks.
cacheTtlTicks == 2

\* The cache clock runs from 0 to MaxTime.
MaxTime == 3

\* cacheGet calls of one run (the hit and miss counters are unbounded).
MaxReads == 2

\* Largest number of parameters of a cache-key record.
MaxParams == 3

\* Fetcher calls of one run (each reads the cache at most once).
MaxFetches == 3

\* NITTER_INSTANCES.length
NitterInstances == 4

CacheKeys == 1..(cacheMaxSize + 1)

Callers == 1..NumFetches
\* A termination signal runs two handlers, each calling cleanup(): the one
\* the pool module registers and the one the server registers.
Cleaners == {1, 2}
\* A launch is started only while initPromise is null: once at start and
\* at most once after each reset by a cleanup.
Launches == 1..(Cardinality(Cleaners) + 1)

NoBrowser == 0
NoPromise == 0
NoSession == 0

(***************************************************************************)
(* Error messages and their classification                                 *)
(*                                                                         *)
(* A message is represented by the set of trigger substrings its           *)
(* lower-cased text contains.                                              *)
(***************************************************************************)

Triggers ==
  {"timeout", "net::", "network", "blocked", "403", "404", "not found",
   "500", "502", "503"}

\* `Timeout waiting for browser context (${timeoutMs}ms)`
AcquireTimeoutMsg == {"timeout"}
\* 'Browser not initialized'
NotInitializedMsg == {}
\* message of a failed chromium.launch / newContext / newPage
EngineFailureMsg == {}
\* page.goto: 'Timeout 30000ms exceeded'
NavigationTimeoutMsg == {"timeout"}
\* page.evaluate: an exception thrown inside the page
ExtractionErrorMsg == {}

classifyError(message) ==
  IF "timeout" \in message THEN "Timeout"
  ELSE IF "net::" \in message \/ "network" \in message THEN "NetworkError"
  ELSE IF "blocked" \in message \/ "403" \in message THEN "Blocked"
  ELSE IF "404" \in message \/ "not found" \in message THEN "NotFound"
  ELSE IF "500" \in message \/ "502" \in message \/ "503" \in message
       THEN "ServerError"
  ELSE "Unknown"

(***************************************************************************)
(* State                                                                   *)
(***************************************************************************)

VARIABLES
  browser,      \* BrowserPool.browser: NoBrowser or the launch that produced it
  initPromise,  \* BrowserPool.initPromise: NoPromise or a launch
  launch,       \* state of each chromium.launch promise
  contexts,     \* BrowserPool.contexts: session id -> inUse, in insertion order
  nextId,       \* next fresh session id
  pc,           \* position of each fetch request
  awaited,      \* the launch promise a request awaits in initialize()
  waited,       \* poll intervals elapsed since startWait
  held,         \* id of the session a request acquired
  returned,     \* success / errorType of the result returned last
  cpc,          \* position of each cleanup() call
  cache,        \* the LRUCache: entries from least to most recently used
  now,          \* the clock the cache reads, in ticks
  hits,         \* cache.ts hit counter
  misses,       \* cache.ts miss counter
  ret,          \* what the last cache call returned
  trail,        \* keys set, one after the other, since the cache was empty
  setAt,        \* per key with an entry, the time of the cacheSet that stored it
  asked,        \* the key of the cacheGet / cacheHas just answered
  kin,          \* arguments of generateCacheKey: a prefix and two records
  kout,         \* the keys generated for the two records
  fpc,          \* position of the fetcher call in flight
  freq,         \* the request of the fetcher call in flight or last returned
  fres,         \* what the last fetcher call returned
  values,       \* per cache key, the result stored with the entry
  calls,        \* backends invoked by the fetcher call in flight or last returned
  cin,          \* the failure message handed to the classifiers
  cout,         \* the error types the two extractors' classifiers returned
  engines,      \* the launched engines that have not been closed
  closing,      \* per cleanup() call, the engine whose close() it awaits
  uin,          \* the url of the request handed to fetchTwitterContent
  vin,          \* the lines of the subtitle file handed to parseVttSubtitles
  vout,         \* the segments parseVttSubtitles returned
  tin,          \* what happens in a run of fetchWithYtDlp
  tout,         \* the files of the call left in the temp directory
  rateLimitMap, \* rateLimit's map: per client, its count and resetTime
  admitted,     \* per client and tick, the requests passed on to the routes
  ytdlp,        \* per call of fetchWithYtDlp, its position and locals
  tempDir       \* the subtitle files in os.tmpdir(), each with its writer

poolVars == <<browser, initPromise, launch, contexts, nextId>>
fetchVars == <<pc, awaited, waited, held, returned>>
cacheVars == <<cache, now, hits, misses, ret, trail, setAt, asked>>
keyVars == <<kin, kout>>
fetcherVars == <<fpc, freq, fres, values, calls>>
classifyVars == <<cin, cout>>
engineVars == <<engines, closing>>
laterVars == <<uin, vin, vout, tin, tout, rateLimitMap, admitted,
               ytdlp, tempDir>>
nonCacheVars == <<poolVars, fetchVars, cpc, keyVars, fetcherVars, classifyVars, engineVars, laterVars>>
vars == <<browser, initPromise, launch, contexts, nextId,
          pc, awaited, waited, held, returned, cpc,
          cache, now, hits, misses, ret, trail, setAt, asked, kin, kout,
          fpc, freq, fres, values, calls, cin, cout, engines, closing,
          uin, vin, vout, tin, tout, rateLimitMap, admitted,
          ytdlp, tempDir>>

(***************************************************************************)
(* BrowserPool: pure parts                                                 *)
(***************************************************************************)

\* Array.from(this.contexts.values()).filter(c => c.inUse).length
activeCount(ctxs) == Cardinality({i \in DOMAIN ctxs : ctxs[i]})

\* Array.from(this.contexts.values()).find(c => !c.inUse): the first idle
\* session in insertion order (ids are issued in insertion order).
IdleIds(ctxs) == {i \in DOMAIN ctxs : ~ctxs[i]}

findAnySession(ctxs) ==
  IF DOMAIN ctxs = {} THEN NoSession
  ELSE CHOOSE i \in DOMAIN ctxs : \A j \in DOMAIN ctxs : i <= j

findAvailable(ctxs) ==
  IF IdleIds(ctxs) = {} THEN NoSession
  ELSE CHOOSE i \in IdleIds(ctxs) : \A j \in IdleIds(ctxs) : i <= j

\* available.inUse = true
markInUse(ctxs, id) == [ctxs EXCEPT ![id] = TRUE]

\* this.contexts.set(id, managed) with managed.inUse = true
addContext(ctxs, id) ==
  [i \in DOMAIN ctxs \cup {id} |-> IF i = id THEN TRUE ELSE ctxs[i]]

releaseDestroys(ctxs, id) ==
  [i \in DOMAIN ctxs \ {id} |-> ctxs[i]]

releaseContext(ctxs, id) ==
  IF id \in DOMAIN ctxs THEN [ctxs EXCEPT ![id] = FALSE] ELSE ctxs

NoContexts == [i \in {} |-> FALSE]

\* initialize(): what the call does, from the two fields it reads.
initializeAlwaysLaunches(b, ip) ==
  IF b # NoBrowser THEN "ready" ELSE "launch"

initialize(b, ip) ==
  IF b # NoBrowser THEN "ready"
  ELSE IF ip # NoPromise THEN "join"
  ELSE "launch"

\* lastError is set by a failed launch and never cleared.
lastError == IF \E p \in Launches : launch[p] = "rejected"
             THEN "launch failed" ELSE "undefined"

getStatus ==
  [status |-> IF browser # NoBrowser THEN "ready"
              ELSE IF initPromise # NoPromise THEN "initializing"
              ELSE "error",
   activeContexts |-> activeCount(contexts),
   maxContexts |-> browserMaxContexts,
   lastError |-> lastError]


(***************************************************************************)
(* Content cache: an LRUCache with max = cacheMaxSize, ttl, and            *)
(* updateAgeOnGet = updateAgeOnHas = false. The cache is the sequence of   *)
(* its entries from least to most recently used; an entry carries its key  *)
(* and the time its age started.                                           *)
(***************************************************************************)

Range(f) == {f[i] : i \in DOMAIN f}

lruIndex(c, k) ==
  IF \E i \in 1..Len(c) : c[i].key = k
  THEN CHOOSE i \in 1..Len(c) : c[i].key = k
  ELSE 0

lruRemoveAt(c, i) == SubSeq(c, 1, i - 1) \o SubSeq(c, i + 1, Len(c))

\* An entry is stale once its age exceeds the ttl.
lruIsStale(e, t) == t - e.start > cacheTtlTicks

\* cache.set(key, entry) on a cache built without `max`.
lruSetUnbounded(c, k, t) ==
  LET i == lruIndex(c, k) IN
  IF i # 0
  THEN Append(lruRemoveAt(c, i), [key |-> k, start |-> t])
  ELSE Append(c, [key |-> k, start |-> t])

\* cache.set(key, entry): an existing key is replaced, made most recent and
\* its age restarted; a new key evicts the least recently used entry when
\* the cache is full.
lruSet(c, k, t) ==
  LET i == lruIndex(c, k) IN
  IF i # 0
  THEN Append(lruRemoveAt(c, i), [key |-> k, start |-> t])
  ELSE IF Len(c) = cacheMaxSize
  THEN Append(Tail(c), [key |-> k, start |-> t])
  ELSE Append(c, [key |-> k, start |-> t])

\* cache.get(key) with updateAgeOnGet: true: a hit restarts the entry's age.
lruGetRestartsAge(c, k, t) ==
  LET i == lruIndex(c, k) IN
  IF i = 0 THEN [cache |-> c, found |-> FALSE]
  ELSE IF lruIsStale(c[i], t)
  THEN [cache |-> lruRemoveAt(c, i), found |-> FALSE]
  ELSE [cache |-> Append(lruRemoveAt(c, i), [key |-> k, start |-> t]),
        found |-> TRUE]

\* cache.get(key): a stale entry is deleted and undefined returned; a live
\* entry becomes the most recently used, its age unchanged.
lruGet(c, k, t) ==
  LET i == lruIndex(c, k) IN
  IF i = 0 THEN [cache |-> c, found |-> FALSE]
  ELSE IF lruIsStale(c[i], t)
  THEN [cache |-> lruRemoveAt(c, i), found |-> FALSE]
  ELSE [cache |-> Append(lruRemoveAt(c, i), c[i]), found |-> TRUE]

\* cache.has(key): true for a live entry; nothing is changed.
lruHas(c, k, t) ==
  LET i == lruIndex(c, k) IN i # 0 /\ ~lruIsStale(c[i], t)

\* cache.delete(key)
lruDelete(c, k) ==
  LET i == lruIndex(c, k) IN
  IF i = 0 THEN [cache |-> c, deleted |-> FALSE]
  ELSE [cache |-> lruRemoveAt(c, i), deleted |-> TRUE]

Broken == <<0>>

\* The key has no entry in the cache.
Never == -1
\* The last call was not a cacheGet or cacheHas.
NoKey == 0

\* The set times s, kept for the keys that have an entry in newCache.
SetTimes(newCache, s) ==
  [k \in DOMAIN s |-> IF \E i \in 1..Len(newCache) : newCache[i].key = k
                      THEN s[k] ELSE Never]

\* The keys set one after the other since the cache was last empty; Broken
\* once anything else than setting a new key has touched a non-empty cache.
TrailAfter(newCache, t) == IF newCache = <<>> THEN <<>> ELSE t

\* cacheGet without the `misses++` of its fall-through path.
cacheGetForgetsMisses(k) ==
  /\ hits + misses < MaxReads
  /\ LET r == lruGet(cache, k, now) IN
       /\ cache' = r.cache
       /\ hits' = IF r.found THEN hits + 1 ELSE hits
       /\ ret' = IF r.found THEN "value" ELSE "undefined"
       /\ trail' = TrailAfter(r.cache, Broken)
       /\ setAt' = SetTimes(r.cache, setAt)
  /\ asked' = k
  /\ UNCHANGED <<now, misses>>
  /\ UNCHANGED nonCacheVars

\* What a call of cacheGet(k) does to the cache module.
cacheGetCall(k) ==
  /\ LET r == lruGet(cache, k, now) IN
       /\ cache' = r.cache
       /\ hits' = IF r.found THEN hits + 1 ELSE hits
       /\ misses' = IF r.found THEN misses ELSE misses + 1
       /\ ret' = IF r.found THEN "value" ELSE "undefined"
       /\ trail' = TrailAfter(r.cache, Broken)
       /\ setAt' = SetTimes(r.cache, setAt)
  /\ asked' = k
  /\ UNCHANGED now

cacheGet(k) ==
  /\ hits + misses < MaxReads
  /\ cacheGetCall(k)
  /\ UNCHANGED nonCacheVars

\* What a call of cacheSet(k, ...) does to the cache module.
cacheSetCall(k) ==
  /\ cache' = lruSet(cache, k, now)
  /\ ret' = "void"
  /\ trail' = IF trail # Broken /\ k \notin Range(trail)
                 /\ Len(trail) <= cacheMaxSize
              THEN Append(trail, k) ELSE Broken
  /\ setAt' = SetTimes(lruSet(cache, k, now), [setAt EXCEPT ![k] = now])
  /\ asked' = NoKey
  /\ UNCHANGED <<now, hits, misses>>

cacheSet(k) ==
  /\ cacheSetCall(k)
  /\ UNCHANGED nonCacheVars

cacheHas(k) ==
  /\ ret' = IF lruHas(cache, k, now) THEN "true" ELSE "false"
  /\ asked' = k
  /\ UNCHANGED <<cache, now, hits, misses, trail, setAt>>
  /\ UNCHANGED nonCacheVars

cacheDelete(k) ==
  /\ LET r == lruDelete(cache, k) IN
       /\ cache' = r.cache
       /\ ret' = IF r.deleted THEN "true" ELSE "false"
       /\ trail' = TrailAfter(r.cache, Broken)
       /\ setAt' = SetTimes(r.cache, setAt)
  /\ asked' = NoKey
  /\ UNCHANGED <<now, hits, misses>>
  /\ UNCHANGED nonCacheVars

cacheClear ==
  /\ cache' = <<>>
  /\ hits' = 0
  /\ misses' = 0
  /\ ret' = "void"
  /\ trail' = <<>>
  /\ setAt' = SetTimes(<<>>, setAt)
  /\ asked' = NoKey
  /\ UNCHANGED now
  /\ UNCHANGED nonCacheVars

\* The sets of keys a prefix can select with key.startsWith(prefix): none,
\* some (nested, as longer prefixes select fewer keys), or all.
PrefixMatches == {1..n : n \in 0..Cardinality(CacheKeys)}

\* cache.keys() yields the keys of the entries that are not stale.
cacheKeysByPrefix(matching) ==
  {cache[i].key : i \in {j \in 1..Len(cache) :
                          cache[j].key \in matching /\ ~lruIsStale(cache[j], now)}}

cacheDeleteByPrefix(matching) ==
  LET keys == cacheKeysByPrefix(matching)
      Stays(e) == e.key \notin keys
  IN /\ cache' = SelectSeq(cache, Stays)
     /\ ret' = ToString(Cardinality(keys))
     /\ trail' = TrailAfter(SelectSeq(cache, Stays), Broken)
     /\ setAt' = SetTimes(SelectSeq(cache, Stays), setAt)
     /\ asked' = NoKey
     /\ UNCHANGED <<now, hits, misses>>
     /\ UNCHANGED nonCacheVars

RECURSIVE GCD(_, _)
GCD(a, b) == IF b = 0 THEN a ELSE GCD(b, a % b)

\* The number n / d (d > 0), as the fraction in lowest terms.
Ratio(n, d) == <<n \div GCD(n, d), d \div GCD(n, d)>>

cacheStats ==
  LET total == hits + misses IN
  [size |-> Len(cache), maxSize |-> cacheMaxSize,
   hitRate |-> IF total > 0 THEN Ratio(hits, total) ELSE Ratio(0, 1),
   hits |-> hits, misses |-> misses]

\* Time passes.
Tick ==
  /\ now < MaxTime
  /\ now' = now + 1
  /\ UNCHANGED <<cache, hits, misses, ret, trail, setAt, asked>>
  /\ UNCHANGED nonCacheVars

CacheInit ==
  /\ cache = <<>>
  /\ now = 0
  /\ hits = 0
  /\ misses = 0
  /\ ret = "void"
  /\ trail = <<>>
  /\ setAt = [k \in CacheKeys |-> Never]
  /\ asked = NoKey

(***************************************************************************)
(* generateCacheKey. A string is the sequence of its UTF-16 code units; a  *)
(* record is the sequence of its <<key, value>> pairs in insertion order.  *)
(***************************************************************************)

Colon == <<58>>
Equals == <<61>>
Ampersand == <<38>>

IsArrayIndex(k) ==
  /\ Len(k) > 0
  /\ \A i \in 1..Len(k) : k[i] \in 48..57
  /\ Len(k) > 1 => k[1] # 48

RECURSIVE NumericValue(_)
NumericValue(k) ==
  IF k = <<>> THEN 0
  ELSE 10 * NumericValue(SubSeq(k, 1, Len(k) - 1)) + (k[Len(k)] - 48)

\* The default comparison of Array.prototype.sort: by code units, a proper
\* prefix first.
StringLess(a, b) ==
  \E i \in 1..(Len(b)) :
    /\ \A j \in 1..(i - 1) : j <= Len(a) /\ a[j] = b[j]
    /\ \/ i = Len(a) + 1
       \/ i <= Len(a) /\ a[i] < b[i]

RECURSIVE InsertString(_, _)
InsertString(x, sorted) ==
  IF sorted = <<>> THEN <<x>>
  ELSE IF StringLess(x, Head(sorted)) THEN <<x>> \o sorted
  ELSE <<Head(sorted)>> \o InsertString(x, Tail(sorted))

\* keys.sort()
RECURSIVE SortStrings(_)
SortStrings(seq) ==
  IF seq = <<>> THEN <<>>
  ELSE InsertString(Head(seq), SortStrings(Tail(seq)))

RECURSIVE InsertIndex(_, _)
InsertIndex(x, sorted) ==
  IF sorted = <<>> THEN <<x>>
  ELSE IF NumericValue(x) < NumericValue(Head(sorted)) THEN <<x>> \o sorted
  ELSE <<Head(sorted)>> \o InsertIndex(x, Tail(sorted))

RECURSIVE SortIndexKeys(_)
SortIndexKeys(seq) ==
  IF seq = <<>> THEN <<>>
  ELSE InsertIndex(Head(seq), SortIndexKeys(Tail(seq)))

\* Object.keys(params): array-index keys in ascending numeric order, then
\* the other keys in insertion order.
ObjectKeys(params) ==
  LET keys == [i \in 1..Len(params) |-> params[i][1]]
      IsOther(k) == ~IsArrayIndex(k)
  IN SortIndexKeys(SelectSeq(keys, IsArrayIndex)) \o SelectSeq(keys, IsOther)

\* params[key]
Lookup(params, k) ==
  CHOOSE i \in 1..Len(params) : params[i][1] = k

\* `${value}` of a string value
TemplateString(v) == v

RECURSIVE Join(_, _)
Join(strings, sep) ==
  IF strings = <<>> THEN <<>>
  ELSE IF Len(strings) = 1 THEN strings[1]
  ELSE strings[1] \o sep \o Join(Tail(strings), sep)

KeyValuePairs(params, keys) ==
  [i \in 1..Len(keys) |->
     keys[i] \o Equals \o TemplateString(params[Lookup(params, keys[i])][2])]

generateCacheKeyUnsorted(prefix, params) ==
  prefix \o Colon \o Join(KeyValuePairs(params, ObjectKeys(params)), Ampersand)

generateCacheKey(prefix, params) ==
  LET sortedKeys == SortStrings(ObjectKeys(params))
  IN prefix \o Colon \o Join(KeyValuePairs(params, sortedKeys), Ampersand)

\* Inputs: prefixes "c", "t"; keys "a", "B", "ab", "10", "9"; values "x", "".
KeyPrefixes == {<<99>>, <<116>>}
ParamNames == {<<97>>, <<66>>, <<97, 98>>, <<49, 48>>, <<57>>}
ParamValues == {<<120>>, <<>>}

Records ==
  UNION {{r \in [1..n -> ParamNames \X ParamValues] :
            \A i, j \in 1..n : i # j => r[i][1] # r[j][1]} : n \in 0..MaxParams}

\* The same key/value pairs, inserted in any order.
Reorderings(r) ==
  {q \in [1..Len(r) -> Range(r)] : Range(q) = Range(r)}

\* The names of a record in ascending order of code units.
SortedNames(r) ==
  LET names == {r[i][1] : i \in 1..Len(r)} IN
  CHOOSE q \in [1..Len(r) -> names] :
    \A i, j \in 1..Len(r) : i < j => StringLess(q[i], q[j])

NoKeys == <<>>

KeyIdle ==
  /\ kin = [prefix |-> <<>>, a |-> <<>>, b |-> <<>>]
  /\ kout = NoKeys

KeyInit ==
  /\ \E prefix \in KeyPrefixes : \E a \in Records : \E b \in Reorderings(a) :
       kin = [prefix |-> prefix, a |-> a, b |-> b]
  /\ kout = NoKeys

GenerateKeys ==
  /\ kout = NoKeys
  /\ kout' = <<generateCacheKey(kin.prefix, kin.a),
               generateCacheKey(kin.prefix, kin.b)>>
  /\ UNCHANGED kin
  /\ UNCHANGED <<poolVars, fetchVars, cpc, cacheVars, fetcherVars, classifyVars, engineVars, laterVars>>

(***************************************************************************)
(* Failure messages as texts. A text is the sequence of its characters;    *)
(* the classifiers test the lower-cased text for substrings.               *)
(***************************************************************************)

UpperCaseLetters == <<"A", "B", "C", "D", "E", "F", "G", "H", "I", "J", "K", "L", "M", "N", "O", "P", "Q", "R", "S", "T", "U", "V", "W", "X", "Y", "Z">>
LowerCaseLetters == <<"a", "b", "c", "d", "e", "f", "g", "h", "i", "j", "k", "l", "m", "n", "o", "p", "q", "r", "s", "t", "u", "v", "w", "x", "y", "z">>

\* String.prototype.toLowerCase, character by character.
toLowerCase(text) ==
  [i \in 1..Len(text) |->
     IF \E j \in 1..Len(UpperCaseLetters) : UpperCaseLetters[j] = text[i]
     THEN LowerCaseLetters[CHOOSE j \in 1..Len(UpperCaseLetters) :
                             UpperCaseLetters[j] = text[i]]
     ELSE text[i]]

\* String.prototype.includes
includes(text, part) ==
  \E i \in 0..(Len(text) - Len(part)) :
    \A j \in 1..Len(part) : text[i + j] = part[j]

\* The characters of each substring classifyError looks for.
TriggerText(t) ==
  CASE t = "timeout" -> <<"t", "i", "m", "e", "o", "u", "t">>
    [] t = "net::" -> <<"n", "e", "t", ":", ":">>
    [] t = "network" -> <<"n", "e", "t", "w", "o", "r", "k">>
    [] t = "blocked" -> <<"b", "l", "o", "c", "k", "e", "d">>
    [] t = "403" -> <<"4", "0", "3">>
    [] t = "404" -> <<"4", "0", "4">>
    [] t = "not found" -> <<"n", "o", "t", " ", "f", "o", "u", "n", "d">>
    [] t = "500" -> <<"5", "0", "0">>
    [] t = "502" -> <<"5", "0", "2">>
    [] t = "503" -> <<"5", "0", "3">>

\* The substrings of Triggers that message.toLowerCase() includes.
TriggersIn(text) ==
  {t \in Triggers : includes(toLowerCase(text), TriggerText(t))}

(***************************************************************************)
(* Results of the fetchers. A result is a record with the properties the   *)
(* object literal sets; an optional property that is not set is not in the *)
(* record's domain.                                                        *)
(***************************************************************************)

\* { ...s, ...r }: the spread written after the properties it should
\* yield to.
SpreadAfter(r, s) ==
  [f \in DOMAIN r \cup DOMAIN s |-> IF f \in DOMAIN r THEN r[f] ELSE s[f]]

\* { ...r, ...s }
Spread(r, s) ==
  [f \in DOMAIN r \cup DOMAIN s |-> IF f \in DOMAIN s THEN s[f] ELSE r[f]]

\* Date.now() - startTime
Elapsed == "elapsed"

\* What a backend extracted: the content differs from one visit to the next.
Versions == {"v1", "v2"}

(***************************************************************************)
(* Transcripts: fetchYouTubeTranscript, fetchWithYtDlp, fetchWithNpmLibrary *)
(***************************************************************************)

\* An error result that leaves errorType out.
createErrorResultUntyped(videoId, error, errorType) ==
  [success |-> FALSE, videoId |-> videoId, error |-> error,
   fetchTimeMs |-> Elapsed]

createErrorResult(videoId, error, errorType) ==
  [success |-> FALSE, videoId |-> videoId, error |-> error,
   errorType |-> errorType, fetchTimeMs |-> Elapsed]

permanentErrors ==
  {<<"n", "o", "t", " ", "f", "o", "u", "n", "d">>,
   <<"p", "r", "i", "v", "a", "t", "e">>,
   <<"u", "n", "a", "v", "a", "i", "l", "a", "b", "l", "e">>,
   <<"d", "i", "s", "a", "b", "l", "e", "d">>,
   <<"n", "o", " ", "c", "a", "p", "t", "i", "o", "n", "s">>,
   <<"n", "o", " ", "t", "r", "a", "n", "s", "c", "r", "i", "p", "t">>,
   <<"a", "g", "e", "-", "r", "e", "s", "t", "r", "i", "c", "t", "e", "d">>}

\* !error is true of undefined and of the empty string.
isRetryableYtDlpError(error) ==
  IF error = <<>> THEN TRUE
  ELSE ~\E e \in permanentErrors : includes(toLowerCase(error), e)

classifyYouTubeError(message) ==
  LET lower == toLowerCase(message)
      has(part) == includes(lower, part)
  IN IF has(<<"t", "r", "a", "n", "s", "c", "r", "i", "p", "t", " ", "i", "s", " ", "d", "i", "s", "a", "b", "l", "e", "d">>) \/ has(<<"s", "u", "b", "t", "i", "t", "l", "e", "s", " ", "a", "r", "e", " ", "d", "i", "s", "a", "b", "l", "e", "d">>)
       THEN "TranscriptsDisabled"
     ELSE IF has(<<"n", "o", " ", "t", "r", "a", "n", "s", "c", "r", "i", "p", "t">>) \/ has(<<"n", "o", " ", "c", "a", "p", "t", "i", "o", "n", "s">>)
       THEN "TranscriptNotFound"
     ELSE IF has(<<"v", "i", "d", "e", "o", " ", "u", "n", "a", "v", "a", "i", "l", "a", "b", "l", "e">>) \/ has(<<"n", "o", "t", " ", "f", "o", "u", "n", "d">>)
       THEN "VideoNotFound"
     ELSE IF has(<<"p", "r", "i", "v", "a", "t", "e">>) THEN "PrivateVideo"
     ELSE IF has(<<"a", "g", "e">>) \/ has(<<"s", "i", "g", "n", " ", "i", "n">>) THEN "AgeRestricted"
     ELSE IF has(<<"t", "o", "o", " ", "m", "a", "n", "y", " ", "r", "e", "q", "u", "e", "s", "t", "s">>) \/ has(<<"r", "a", "t", "e", " ", "l", "i", "m", "i", "t">>)
       THEN "RateLimited"
     ELSE IF has(<<"t", "i", "m", "e", "o", "u", "t">>) THEN "Timeout"
     ELSE IF has(<<"n", "e", "t", "w", "o", "r", "k">>) \/ has(<<"e", "c", "o", "n", "n", "r", "e", "f", "u", "s", "e", "d">>) THEN "NetworkError"
     ELSE "Unknown"

\* What one run of the yt-dlp subprocess and of the file reads did: whether
\* an awaited call rejected (and with which message), what the subtitle
\* listing showed, whether a .vtt file was written, how many segments it
\* held and what they said.
YtDlpRun(throws, message, listing, vtt, segments, version) ==
  [throws |-> throws, message |-> message, listing |-> listing,
   vtt |-> vtt, segments |-> segments, version |-> version]

Listings == {"unavailable", "age", "none", "auto", "manual"}

YtDlpMessages ==
  {<<"y", "t", "-", "d", "l", "p", ":", " ", "c", "o", "m", "m", "a", "n", "d", " ", "n", "o", "t", " ", "f", "o", "u", "n", "d">>,
   <<"s", "p", "a", "w", "n", " ", "E", "T", "I", "M", "E", "D", "O", "U", "T">>,
   <<"E", "R", "R", "O", "R", ":", " ", "V", "i", "d", "e", "o", " ", "u", "n", "a", "v", "a", "i", "l", "a", "b", "l", "e">>,
   <<"H", "T", "T", "P", " ", "E", "r", "r", "o", "r", " ", "4", "2", "9">>,
   <<"E", "R", "R", "O", "R", ":", " ", "U", "n", "a", "b", "l", "e", " ", "t", "o", " ", "d", "o", "w", "n", "l", "o", "a", "d", " ", "w", "e", "b", "p", "a", "g", "e">>}

YtDlpRuns ==
  {YtDlpRun(TRUE, m, "manual", TRUE, 1, "v1") : m \in YtDlpMessages}
    \cup {YtDlpRun(FALSE, <<>>, l, TRUE, 1, v) : l \in Listings, v \in Versions}
    \cup {YtDlpRun(FALSE, <<>>, "auto", FALSE, 1, "v1"),
          YtDlpRun(FALSE, <<>>, "manual", TRUE, 0, "v1")}

fetchWithYtDlp(videoId, run) ==
  IF run.throws
  THEN IF includes(run.message, <<"c", "o", "m", "m", "a", "n", "d", " ", "n", "o", "t", " ", "f", "o", "u", "n", "d">>)
            \/ includes(run.message, <<"n", "o", "t", " ", "r", "e", "c", "o", "g", "n", "i", "z", "e", "d">>)
       THEN createErrorResult(videoId, <<"y", "t", "-", "d", "l", "p", " ", "n", "o", "t", " ", "i", "n", "s", "t", "a", "l", "l", "e", "d">>, "ServerError")
       ELSE IF includes(run.message, <<"E", "T", "I", "M", "E", "D", "O", "U", "T">>)
                 \/ includes(run.message, <<"t", "i", "m", "e", "o", "u", "t">>)
       THEN createErrorResult(videoId, <<"R", "e", "q", "u", "e", "s", "t", " ", "t", "i", "m", "e", "d", " ", "o", "u", "t">>, "Timeout")
       ELSE createErrorResult(videoId,
                              <<"y", "t", "-", "d", "l", "p", " ", "e", "r", "r", "o", "r", ":", " ">> \o run.message,
                              "Unknown")
  ELSE IF run.listing = "unavailable"
  THEN createErrorResult(videoId, <<"V", "i", "d", "e", "o", " ", "n", "o", "t", " ", "f", "o", "u", "n", "d", " ", "o", "r", " ", "i", "s", " ", "p", "r", "i", "v", "a", "t", "e">>,
                         "VideoNotFound")
  ELSE IF run.listing = "age"
  THEN createErrorResult(videoId, <<"A", "g", "e", "-", "r", "e", "s", "t", "r", "i", "c", "t", "e", "d", " ", "v", "i", "d", "e", "o">>, "AgeRestricted")
  ELSE IF run.listing = "none"
  THEN createErrorResult(videoId,
                         <<"N", "o", " ", "c", "a", "p", "t", "i", "o", "n", "s", " ", "a", "v", "a", "i", "l", "a", "b", "l", "e", " ", "f", "o", "r", " ", "t", "h", "i", "s", " ", "v", "i", "d", "e", "o">>,
                         "TranscriptNotFound")
  ELSE IF ~run.vtt
  THEN createErrorResult(videoId, <<"C", "o", "u", "l", "d", " ", "n", "o", "t", " ", "d", "o", "w", "n", "l", "o", "a", "d", " ", "s", "u", "b", "t", "i", "t", "l", "e", "s">>,
                         "TranscriptNotFound")
  ELSE IF run.segments = 0
  THEN createErrorResult(videoId, <<"N", "o", " ", "t", "r", "a", "n", "s", "c", "r", "i", "p", "t", " ", "c", "o", "n", "t", "e", "n", "t", " ", "f", "o", "u", "n", "d">>,
                         "TranscriptNotFound")
  ELSE [success |-> TRUE, videoId |-> videoId,
        transcript |-> [segments |-> run.version, language |-> "en"],
        source |-> "yt-dlp", fetchTimeMs |-> Elapsed]

\* What YoutubeTranscript.fetchTranscript did.
NpmRun(throws, message, items, version) ==
  [throws |-> throws, message |-> message, items |-> items,
   version |-> version]

NpmMessages ==
  {<<"T", "r", "a", "n", "s", "c", "r", "i", "p", "t", " ", "i", "s", " ", "d", "i", "s", "a", "b", "l", "e", "d", " ", "o", "n", " ", "t", "h", "i", "s", " ", "v", "i", "d", "e", "o">>,
   <<"T", "o", "o", " ", "m", "a", "n", "y", " ", "r", "e", "q", "u", "e", "s", "t", "s">>,
   <<"t", "i", "m", "e", "o", "u", "t", " ", "o", "f", " ", "1", "0", "0", "0", "0", "m", "s", " ", "e", "x", "c", "e", "e", "d", "e", "d">>,
   <<>>}

NpmRuns ==
  {NpmRun(TRUE, m, 1, "v1") : m \in NpmMessages}
    \cup {NpmRun(FALSE, <<>>, 1, v) : v \in Versions}
    \cup {NpmRun(FALSE, <<>>, 0, "v1")}

fetchWithNpmLibrary(videoId, run) ==
  IF run.throws
  THEN createErrorResult(videoId, run.message, classifyYouTubeError(run.message))
  ELSE IF run.items = 0
  THEN createErrorResult(videoId, <<"N", "o", " ", "t", "r", "a", "n", "s", "c", "r", "i", "p", "t", " ", "a", "v", "a", "i", "l", "a", "b", "l", "e">>, "TranscriptNotFound")
  ELSE [success |-> TRUE, videoId |-> videoId,
        transcript |-> [segments |-> run.version, language |-> "en"],
        source |-> "youtube-transcript", fetchTimeMs |-> Elapsed]

(***************************************************************************)
(* Pages and posts: fetchContent, fetchFromNitter, fetchFromTwitterDirect.  *)
(* The three share the try / catch / finally shape followed step by step   *)
(* in the pool's specification; here each is taken from the run of its     *)
(* try block to the result it returns.                                     *)
(***************************************************************************)

\* A promise that rejects instead of resolving with a result.
Rejected(message) == [rejected |-> message]

\* What one pass through a try block did: whether an awaited call
\* (acquireContext, createPage, goto, waitForSelector, evaluate) threw and
\* with which message, what the page held, and whether page.close() threw.
PageRun(throws, message, found, version, closeThrows) ==
  [throws |-> throws, message |-> message, found |-> found,
   version |-> version, closeThrows |-> closeThrows]

\* What page.waitForSelector(waitFor, { timeout: timeout / 2 }) throws when
\* the selector does not appear in time.
SelectorTimeoutMsg == <<"p", "a", "g", "e", ".", "w", "a", "i", "t", "F", "o", "r", "S", "e", "l", "e", "c", "t", "o", "r", ":", " ", "T", "i", "m", "e", "o", "u", "t", " ", "1", "5", "0", "0", "0", "m", "s", " ", "e", "x", "c", "e", "e", "d", "e", "d", ".">>

PageMessages ==
  {<<"T", "i", "m", "e", "o", "u", "t", " ", "w", "a", "i", "t", "i", "n", "g", " ", "f", "o", "r", " ", "b", "r", "o", "w", "s", "e", "r", " ", "c", "o", "n", "t", "e", "x", "t", " ", "(", "6", "0", "0", "0", "0", "m", "s", ")">>,
   <<"p", "a", "g", "e", ".", "g", "o", "t", "o", ":", " ", "n", "e", "t", ":", ":", "E", "R", "R", "_", "T", "I", "M", "E", "D", "_", "O", "U", "T">>,
   <<"B", "r", "o", "w", "s", "e", "r", " ", "n", "o", "t", " ", "i", "n", "i", "t", "i", "a", "l", "i", "z", "e", "d">>,
   <<"T", "a", "r", "g", "e", "t", " ", "p", "a", "g", "e", ",", " ", "c", "o", "n", "t", "e", "x", "t", " ", "o", "r", " ", "b", "r", "o", "w", "s", "e", "r", " ", "h", "a", "s", " ", "b", "e", "e", "n", " ", "c", "l", "o", "s", "e", "d">>,
   SelectorTimeoutMsg,
   <<>>}

PageRuns ==
  {PageRun(TRUE, m, "content", "v1", c) : m \in PageMessages, c \in BOOLEAN}
    \cup {PageRun(FALSE, <<>>, f, v, c) :
            f \in {"content", "nothing", "login"}, v \in Versions, c \in BOOLEAN}

\* twitter-extractor's classifyError with the 'blocked' / '403' rule tested
\* before the 'net::' / 'network' rule.
classifyErrorTwitterReordered(message) ==
  IF "timeout" \in message THEN "Timeout"
  ELSE IF "blocked" \in message \/ "403" \in message THEN "Blocked"
  ELSE IF "net::" \in message \/ "network" \in message THEN "NetworkError"
  ELSE IF "404" \in message \/ "not found" \in message THEN "NotFound"
  ELSE IF "500" \in message \/ "502" \in message \/ "503" \in message
       THEN "ServerError"
  ELSE "Unknown"

\* twitter-extractor's classifyError
classifyErrorTwitter(message) ==
  IF "timeout" \in message THEN "Timeout"
  ELSE IF "net::" \in message \/ "network" \in message THEN "NetworkError"
  ELSE IF "blocked" \in message \/ "403" \in message THEN "Blocked"
  ELSE IF "404" \in message \/ "not found" \in message THEN "NotFound"
  ELSE IF "500" \in message \/ "502" \in message \/ "503" \in message
       THEN "ServerError"
  ELSE "Unknown"

\* finally { try { await page.close() } catch {} ; context.release() }
\* without the inner try: a failing page.close() replaces the result.
finallyUnguarded(result, run) ==
  IF run.closeThrows THEN Rejected(<<"T", "a", "r", "g", "e", "t", " ", "c", "l", "o", "s", "e", "d">>) ELSE result

finally(result, run) == result

\* textContent?.trim().replace(/\s+/g, ' ') || '' of the element the page
\* held: a text without white space, or the empty text.
pageText(run) == IF run.found = "nothing" THEN "" ELSE run.version

\* text.split(/\s+/) of a text without white space: the text itself.
split(text) == <<text>>

\* text.split(/\s+/).filter(w => w.length > 0).length
wordCount(text) ==
  Cardinality({i \in DOMAIN split(text) : split(text)[i] # ""})

\* fetchContent from the cache miss on: try, catch, finally.
fetchContentBody(url, run) ==
  finally(
    IF run.throws
    THEN [success |-> FALSE, url |-> url, error |-> run.message,
          errorType |-> classifyError(TriggersIn(run.message))]
    ELSE [success |-> TRUE, url |-> url,
          content |-> [text |-> pageText(run)],
          metadata |-> [wordCount |-> wordCount(pageText(run)),
                        method |-> "playwright", latencyMs |-> Elapsed]],
    run)

fetchFromNitter(originalUrl, run) ==
  finally(
    IF run.throws
    THEN [success |-> FALSE, url |-> originalUrl,
          error |-> <<"N", "i", "t", "t", "e", "r", " ", "e", "r", "r", "o", "r", ":", " ">> \o run.message,
          errorType |-> classifyErrorTwitter(TriggersIn(run.message)),
          fetchTimeMs |-> Elapsed]
    ELSE IF run.found # "content"
    THEN [success |-> FALSE, url |-> originalUrl,
          error |-> <<"C", "o", "u", "l", "d", " ", "n", "o", "t", " ", "e", "x", "t", "r", "a", "c", "t", " ", "t", "w", "e", "e", "t", " ", "c", "o", "n", "t", "e", "n", "t", " ", "f", "r", "o", "m", " ", "N", "i", "t", "t", "e", "r">>,
          errorType |-> "NotFound", fetchTimeMs |-> Elapsed]
    ELSE [success |-> TRUE, url |-> originalUrl,
          content |-> [text |-> run.version], fetchTimeMs |-> Elapsed],
    run)

fetchFromTwitterDirect(originalUrl, run) ==
  finally(
    IF run.throws
    THEN [success |-> FALSE, url |-> originalUrl, error |-> run.message,
          errorType |-> classifyErrorTwitter(TriggersIn(run.message)),
          fetchTimeMs |-> Elapsed]
    ELSE IF run.found = "login"
    THEN [success |-> FALSE, url |-> originalUrl,
          error |-> <<"T", "w", "i", "t", "t", "e", "r", " ", "r", "e", "q", "u", "i", "r", "e", "s", " ", "l", "o", "g", "i", "n", " ", "t", "o", " ", "v", "i", "e", "w", " ", "t", "h", "i", "s", " ", "c", "o", "n", "t", "e", "n", "t">>,
          errorType |-> "Blocked", fetchTimeMs |-> Elapsed]
    ELSE IF run.found # "content"
    THEN [success |-> FALSE, url |-> originalUrl,
          error |-> <<"C", "o", "u", "l", "d", " ", "n", "o", "t", " ", "e", "x", "t", "r", "a", "c", "t", " ", "t", "w", "e", "e", "t", " ", "c", "o", "n", "t", "e", "n", "t">>,
          errorType |-> "NotFound", fetchTimeMs |-> Elapsed]
    ELSE [success |-> TRUE, url |-> originalUrl,
          content |-> [text |-> run.version], fetchTimeMs |-> Elapsed],
    run)

(***************************************************************************)
(* The fetchers as the routes call them, one call at a time.               *)
(***************************************************************************)

\* generateCacheKey(prefix, {...}) of the one video, page and post followed:
\* different prefixes give different keys.
FetchKey == [transcript |-> 1, content |-> 2, twitter |-> 3]

\* The url of a request parses (new URL, parseTwitterUrl) or does not.
Requests == [kind : {"content", "twitter"}, valid : BOOLEAN]

NoResult == [pending |-> TRUE]
NoCalls == [primary |-> 0, fallback |-> 0, sessions |-> 0]

IsSuccess(result) == "success" \in DOMAIN result /\ result.success

FetcherInit ==
  /\ fpc = "idle"
  /\ freq = [kind |-> "none", valid |-> TRUE]
  /\ fres = NoResult
  /\ values = [k \in CacheKeys |-> NoResult]
  /\ calls = NoCalls

\* A fetcher is entered: it reads the cache under its key.
Enter(request) ==
  /\ fpc \in {"idle", "done"}
  /\ hits + misses < MaxFetches
  /\ freq' = request
  /\ calls' = NoCalls
  /\ UNCHANGED <<poolVars, fetchVars, cpc, keyVars, classifyVars, engineVars, laterVars>>

\* cacheSet(cacheKey, result, ...) without the test of result.success.
FinishCachesAll(key, result) ==
  /\ fpc' = "done"
  /\ fres' = result
  /\ cacheSetCall(key)
  /\ values' = [values EXCEPT ![key] = result]

\* `if (result.success) cacheSet(cacheKey, result, ...)` and the return.
Finish(key, result) ==
  /\ fpc' = "done"
  /\ fres' = result
  /\ IF IsSuccess(result)
     THEN /\ cacheSetCall(key)
          /\ values' = [values EXCEPT ![key] = result]
     ELSE UNCHANGED <<cacheVars, values>>

\* The awaited backend settled with a result, or rejected: nothing in the
\* caller catches a rejection.
Settle(key, result, retry, next) ==
  /\ UNCHANGED <<freq, poolVars, fetchVars, cpc, keyVars, classifyVars, engineVars, laterVars>>
  /\ IF "rejected" \in DOMAIN result
     THEN /\ fpc' = "done"
          /\ fres' = result
          /\ UNCHANGED <<cacheVars, values>>
     ELSE IF retry
     THEN /\ fpc' = next
          /\ fres' = result
          /\ UNCHANGED <<cacheVars, values>>
     ELSE Finish(key, result)

fetchYouTubeTranscript(videoId) ==
  /\ Enter([kind |-> "transcript", valid |-> TRUE])
  /\ cacheGetCall(FetchKey.transcript)
  /\ UNCHANGED values
  /\ IF lruGet(cache, FetchKey.transcript, now).found
     THEN /\ fres' = Spread(values[FetchKey.transcript],
                            [fetchTimeMs |-> "0", source |-> "cache",
                             cached |-> TRUE])
          /\ fpc' = "done"
     ELSE /\ fres' = NoResult
          /\ fpc' = "ytdlp"

\* `!result.success && isRetryableYtDlpError(result.error)`
shouldFallBack(result) ==
  ~IsSuccess(result) /\ isRetryableYtDlpError(result.error)

\* Every result fetchWithYtDlp can resolve with, and whether the fallback
\* is tried after it.
YtDlpOutcomes ==
  {[result |-> fetchWithYtDlp("video", run),
    retry |-> shouldFallBack(fetchWithYtDlp("video", run))] : run \in YtDlpRuns}

\* fetchWithYtDlp settled: fall back, or cache and return.
YtDlpSettled ==
  /\ fpc = "ytdlp"
  /\ calls' = [calls EXCEPT !.primary = @ + 1]
  /\ \E o \in YtDlpOutcomes :
       Settle(FetchKey.transcript, o.result, o.retry, "npm")

NpmResults == {fetchWithNpmLibrary("video", run) : run \in NpmRuns}

\* fetchWithNpmLibrary settled: cache and return.
NpmSettled ==
  /\ fpc = "npm"
  /\ calls' = [calls EXCEPT !.fallback = @ + 1]
  /\ \E result \in NpmResults :
       Settle(FetchKey.transcript, result, FALSE, "done")

\* fetchContent with the cache looked up before the URL is validated.
fetchContentLooksUpFirst(request) ==
  /\ request.kind = "content"
  /\ Enter(request)
  /\ UNCHANGED values
  /\ cacheGetCall(FetchKey.content)
  /\ IF ~request.valid
     THEN /\ fres' = [success |-> FALSE, url |-> "page",
                      error |-> <<"I", "n", "v", "a", "l", "i", "d", " ", "U", "R", "L", " ", "f", "o", "r", "m", "a", "t">>,
                      errorType |-> "InvalidUrl"]
          /\ fpc' = "done"
     ELSE IF lruGet(cache, FetchKey.content, now).found
     THEN LET cached == values[FetchKey.content] IN
          /\ fres' = Spread(cached,
                        [metadata |->
                           Spread(cached.metadata,
                                  [method |-> "cache",
                                   latencyMs |-> Elapsed])])
          /\ fpc' = "done"
     ELSE /\ fres' = NoResult
          /\ fpc' = "page"

fetchContent(request) ==
  /\ request.kind = "content"
  /\ Enter(request)
  /\ UNCHANGED values
  /\ IF ~request.valid
     THEN /\ fres' = [success |-> FALSE, url |-> "page",
                      error |-> <<"I", "n", "v", "a", "l", "i", "d", " ", "U", "R", "L", " ", "f", "o", "r", "m", "a", "t">>,
                      errorType |-> "InvalidUrl"]
          /\ fpc' = "done"
          /\ UNCHANGED cacheVars
     ELSE /\ cacheGetCall(FetchKey.content)
          /\ IF lruGet(cache, FetchKey.content, now).found
             THEN LET cached == values[FetchKey.content] IN
                  /\ fres' = Spread(cached,
                                [metadata |->
                                   Spread(cached.metadata,
                                          [method |-> "cache",
                                           latencyMs |-> Elapsed])])
                  /\ fpc' = "done"
             ELSE /\ fres' = NoResult
                  /\ fpc' = "page"

ContentResults == {fetchContentBody("page", run) : run \in PageRuns}

\* The try / catch / finally of fetchContent ran to its return.
ContentSettled ==
  /\ fpc = "page"
  /\ calls' = [calls EXCEPT !.sessions = @ + 1]
  /\ \E result \in ContentResults :
       Settle(FetchKey.content, result, FALSE, "done")

fetchTwitterContent(request) ==
  /\ request.kind = "twitter"
  /\ Enter(request)
  /\ UNCHANGED values
  /\ IF ~request.valid
     THEN /\ fres' = [success |-> FALSE, url |-> "post",
                      error |-> <<"I", "n", "v", "a", "l", "i", "d", " ", "T", "w", "i", "t", "t", "e", "r", "/", "X", " ", "U", "R", "L">>,
                      errorType |-> "InvalidUrl"]
          /\ fpc' = "done"
          /\ UNCHANGED cacheVars
     ELSE /\ cacheGetCall(FetchKey.twitter)
          /\ IF lruGet(cache, FetchKey.twitter, now).found
             THEN /\ fres' = Spread(values[FetchKey.twitter],
                                    [fetchTimeMs |-> Elapsed])
                  /\ fpc' = "done"
             ELSE /\ fres' = NoResult
                  /\ fpc' = "nitter"

NitterResults == {fetchFromNitter("post", run) : run \in PageRuns}

DirectResults == {fetchFromTwitterDirect("post", run) : run \in PageRuns}

\* The loop over NITTER_INSTANCES left after the first failed instance.
NitterSettledOnce ==
  /\ fpc = "nitter"
  /\ calls' = [calls EXCEPT !.primary = @ + 1, !.sessions = @ + 1]
  /\ \E result \in NitterResults :
       Settle(FetchKey.twitter, result, ~IsSuccess(result), "direct")

\* fetchFromNitter settled for one instance of NITTER_INSTANCES: return on
\* success, else try the next instance, and after the last one go direct.
NitterSettled ==
  /\ fpc = "nitter"
  /\ calls' = [calls EXCEPT !.primary = @ + 1, !.sessions = @ + 1]
  /\ \E result \in NitterResults :
       Settle(FetchKey.twitter, result, ~IsSuccess(result),
              IF calls.primary + 1 < NitterInstances
              THEN "nitter" ELSE "direct")

\* fetchFromTwitterDirect settled: cache on success and return.
DirectSettled ==
  /\ fpc = "direct"
  /\ calls' = [calls EXCEPT !.fallback = @ + 1, !.sessions = @ + 1]
  /\ \E result \in DirectResults :
       Settle(FetchKey.twitter, result, FALSE, "done")

\* No message has been handed to the classifiers.
NoTypes == <<>>

ClassifyIdle ==
  /\ cin = <<>>
  /\ cout = NoTypes

\* Pieces of the failure messages handed to the classifiers: the substrings
\* they look for, and pieces of Playwright's messages in their own case.
Fragments ==
  {TriggerText(t) : t \in Triggers} \cup
  {<<"n", "e", "t", ":", ":", "E", "R", "R", "_", "T", "I", "M", "E", "D", "_", "O", "U", "T">>,
   <<"T", "i", "m", "e", "o", "u", "t">>,
   <<"N", "o", "t", " ", "F", "o", "u", "n", "d">>,
   <<"p", "a", "g", "e", ".", "g", "o", "t", "o", ":", " ">>,
   <<" ", "e", "x", "c", "e", "e", "d", "e", "d">>}

MaxParts == 2

\* error.message of the caught error
Messages ==
  {Join(parts, <<>>) : parts \in UNION {[1..n -> Fragments] : n \in 0..MaxParts}}

ClassifyInit ==
  /\ cin \in Messages
  /\ cout = NoTypes

\* errorType: classifyError(errorMessage) in the catch block of fetchContent
\* and of fetchFromNitter / fetchFromTwitterDirect, on the same message.
Classify ==
  /\ cout = NoTypes
  /\ cout' = <<classifyError(TriggersIn(cin)),
               classifyErrorTwitter(TriggersIn(cin))>>
  /\ UNCHANGED <<cin, poolVars, fetchVars, cpc, cacheVars, keyVars, fetcherVars,
                 engineVars, laterVars>>

(***************************************************************************)
(* Inputs of the functions followed on their own, before any call          *)
(***************************************************************************)

NoUrl == [parses |-> FALSE]
NoSegments == <<[pending |-> TRUE]>>
NoRun == [none |-> TRUE]
NoFiles == {"pending"}

UrlIdle == uin = NoUrl

VttIdle == vin = <<>> /\ vout = NoSegments

TempIdle == tin = NoRun /\ tout = NoFiles

RateIdle == rateLimitMap = <<>> /\ admitted = <<>>

BatchIdle == ytdlp = <<>> /\ tempDir = {}

LaterIdle == UrlIdle /\ VttIdle /\ TempIdle /\ RateIdle /\ BatchIdle

(***************************************************************************)
(* Initial state: the module-level singleton right after construction      *)
(***************************************************************************)

PoolInit ==
  /\ browser = NoBrowser
  /\ initPromise = NoPromise
  /\ launch = [p \in Launches |-> "unused"]
  /\ contexts = NoContexts
  /\ nextId = 1
  /\ pc = [c \in Callers |-> "idle"]
  /\ awaited = [c \in Callers |-> NoPromise]
  /\ waited = [c \in Callers |-> 0]
  /\ held = [c \in Callers |-> NoSession]
  /\ returned = "none"
  /\ cpc = [k \in Cleaners |-> "idle"]
  /\ engines = {}
  /\ closing = [k \in Cleaners |-> NoBrowser]

(***************************************************************************)
(* A fetch request: fetchContent / fetchFromNitter / fetchFromTwitterDirect *)
(* share one shape: acquire, createPage, page work, and a finally block    *)
(* that closes the page and releases the session.                          *)
(***************************************************************************)

\* The request returns its result envelope.
Return(c, res) ==
  /\ pc' = [pc EXCEPT ![c] = "done"]
  /\ returned' = res
  /\ awaited' = [awaited EXCEPT ![c] = NoPromise]
  /\ waited' = [waited EXCEPT ![c] = 0]
  /\ held' = [held EXCEPT ![c] = NoSession]

\* while (Date.now() - startWait < timeoutMs)
withinTimeout(elapsed) == elapsed < TimeoutTicks

\* Time read by the loop test after a sleep of d intervals.
elapsedFrozen(w, d) == w

elapsedAfterSleep(w, d) == w + d

\* One pass of the poll loop, from its test: take the first idle session,
\* or sleep 100 ms, or throw the timeout error (caught by the fetcher,
\* which holds no session and no page then).
PollIteration(c, elapsed) ==
  IF withinTimeout(elapsed)
  THEN LET available == findAvailable(contexts) IN
       IF available # NoSession
       THEN /\ contexts' = markInUse(contexts, available)
            /\ pc' = [pc EXCEPT ![c] = "holding"]
            /\ held' = [held EXCEPT ![c] = available]
            /\ waited' = [waited EXCEPT ![c] = elapsed]
            /\ UNCHANGED <<awaited, returned>>
       ELSE /\ pc' = [pc EXCEPT ![c] = "polling"]
            /\ waited' = [waited EXCEPT ![c] = elapsed]
            /\ UNCHANGED <<contexts, awaited, held, returned>>
  ELSE /\ Return(c, classifyError(AcquireTimeoutMsg))
       /\ UNCHANGED contexts

\* The request starts: acquireContext() runs initialize() up to its await.
FetchStart(c) ==
  /\ pc[c] = "idle"
  /\ \A d \in Callers : d < c => pc[d] # "idle"
  /\ LET how == initialize(browser, initPromise) IN
     \/ /\ how = "ready"
        /\ pc' = [pc EXCEPT ![c] = "resume"]
        /\ UNCHANGED <<initPromise, launch, awaited>>
     \/ /\ how = "join"
        /\ pc' = [pc EXCEPT ![c] = "awaitInit"]
        /\ awaited' = [awaited EXCEPT ![c] = initPromise]
        /\ UNCHANGED <<initPromise, launch>>
     \/ /\ how = "launch"
        /\ \E p \in Launches :
             /\ launch[p] = "unused"
             /\ \A q \in Launches : q < p => launch[q] # "unused"
             /\ launch' = [launch EXCEPT ![p] = "pending"]
             /\ initPromise' = p
             /\ awaited' = [awaited EXCEPT ![c] = p]
        /\ pc' = [pc EXCEPT ![c] = "awaitInit"]
  /\ UNCHANGED <<browser, contexts, nextId, waited, held, returned, cpc, cacheVars, keyVars,
                 fetcherVars, classifyVars, engineVars, laterVars>>

\* _init resumes after chromium.launch resolved.
LaunchResolve(p) ==
  /\ launch[p] = "pending"
  /\ launch' = [launch EXCEPT ![p] = "resolved"]
  /\ browser' = p
  /\ engines' = engines \cup {p}
  /\ UNCHANGED <<initPromise, contexts, nextId, cpc, closing>>
  /\ UNCHANGED <<fetchVars, cacheVars, keyVars,
                 fetcherVars, classifyVars, laterVars>>

\* _init resumes after chromium.launch rejected: lastError set, rethrown.
LaunchReject(p) ==
  /\ launch[p] = "pending"
  /\ launch' = [launch EXCEPT ![p] = "rejected"]
  /\ UNCHANGED <<browser, initPromise, contexts, nextId, cpc>>
  /\ UNCHANGED <<fetchVars, cacheVars, keyVars,
                 fetcherVars, classifyVars, engineVars, laterVars>>

\* acquireContext resumes after `await this.initialize()`.
AcquireResume(c) ==
  /\ \/ pc[c] = "resume"
     \/ pc[c] = "awaitInit" /\ launch[awaited[c]] \in {"resolved", "rejected"}
  /\ IF pc[c] = "awaitInit" /\ launch[awaited[c]] = "rejected"
     THEN /\ Return(c, classifyError(EngineFailureMsg))
          /\ UNCHANGED contexts
     ELSE IF browser = NoBrowser
     THEN /\ Return(c, classifyError(NotInitializedMsg))
          /\ UNCHANGED contexts
     ELSE IF activeCount(contexts) >= browserMaxContexts
     THEN PollIteration(c, 0)
     ELSE /\ pc' = [pc EXCEPT ![c] = "creating"]
          /\ awaited' = [awaited EXCEPT ![c] = NoPromise]
          /\ UNCHANGED <<contexts, waited, held, returned>>
  /\ UNCHANGED <<browser, initPromise, launch, nextId, cpc, cacheVars, keyVars,
                 fetcherVars, classifyVars, engineVars, laterVars>>

\* The 100 ms timer of the poll loop fires (late by any amount).
PollTick(c) ==
  /\ pc[c] = "polling"
  /\ \E d \in 1..(TimeoutTicks - waited[c]) :
       PollIteration(c, elapsedAfterSleep(waited[c], d))
  /\ UNCHANGED <<browser, initPromise, launch, nextId, cpc, cacheVars, keyVars,
                 fetcherVars, classifyVars, engineVars, laterVars>>

\* browser.newContext() resolved: the session is recorded as in use.
CreateDone(c) ==
  /\ pc[c] = "creating"
  /\ contexts' = addContext(contexts, nextId)
  /\ nextId' = nextId + 1
  /\ held' = [held EXCEPT ![c] = nextId]
  /\ pc' = [pc EXCEPT ![c] = "holding"]
  /\ UNCHANGED <<browser, initPromise, launch, awaited, waited, returned, cpc, cacheVars, keyVars,
                 fetcherVars, classifyVars, engineVars, laterVars>>

\* browser.newContext() rejected (engine closed or crashed).
CreateFail(c) ==
  /\ pc[c] = "creating"
  /\ Return(c, classifyError(EngineFailureMsg))
  /\ UNCHANGED <<browser, initPromise, launch, contexts, nextId, cpc, cacheVars, keyVars,
                 fetcherVars, classifyVars, engineVars, laterVars>>

\* The finally block of a fetcher, once the page (if any) is closed.
finallyReleaseOnSuccess(ctxs, id, res) ==
  IF res = "success" THEN releaseContext(ctxs, id) ELSE ctxs

finallyRelease(ctxs, id, res) == releaseContext(ctxs, id)

\* createPage rejected: catch, then finally with no page to close.
CreatePageFail(c) ==
  /\ pc[c] = "holding"
  /\ LET res == classifyError(EngineFailureMsg) IN
       /\ contexts' = finallyRelease(contexts, held[c], res)
       /\ Return(c, res)
  /\ UNCHANGED <<browser, initPromise, launch, nextId, cpc, cacheVars, keyVars,
                 fetcherVars, classifyVars, engineVars, laterVars>>

\* createPage resolved and the page work (goto, waitForSelector, evaluate)
\* ran to its end or threw: control enters the finally block, which awaits
\* page.close(). The awaits between createPage and the end of the page work
\* touch no pool state; they are one stretch of "holding". Whether the try
\* block produced a result or the catch block an error is not read by
\* anything before the return, so the envelope is drawn at the return.
PageSettled(c) ==
  /\ pc[c] = "holding"
  /\ pc' = [pc EXCEPT ![c] = "closing"]
  /\ UNCHANGED <<browser, initPromise, launch, contexts, nextId,
                 awaited, waited, held, returned, cpc, cacheVars, keyVars,
                 fetcherVars, classifyVars, engineVars, laterVars>>

\* page.close() settled (a rejection is swallowed), context.release(), and
\* the result built by the try block is returned.
ReturnSuccess(c) ==
  /\ pc[c] = "closing"
  /\ contexts' = finallyRelease(contexts, held[c], "success")
  /\ Return(c, "success")
  /\ UNCHANGED <<browser, initPromise, launch, nextId, cpc, cacheVars, keyVars,
                 fetcherVars, classifyVars, engineVars, laterVars>>

\* page.close() settled, context.release(), and the error result built by
\* the catch block (navigation timeout, extraction exception) is returned.
ReturnFailure(c) ==
  /\ pc[c] = "closing"
  /\ \E msg \in {NavigationTimeoutMsg, ExtractionErrorMsg} :
       LET res == classifyError(msg) IN
         /\ contexts' = finallyRelease(contexts, held[c], res)
         /\ Return(c, res)
  /\ UNCHANGED <<browser, initPromise, launch, nextId, cpc, cacheVars, keyVars,
                 fetcherVars, classifyVars, engineVars, laterVars>>

(***************************************************************************)
(* cleanup()                                                               *)
(***************************************************************************)

initPromiseKept(ip) == ip

\* this.initPromise = null
initPromiseAfterCleanup(ip) == NoPromise

\* From `this.contexts.clear()` to the next await or the return.
CleanupAfterLoop(k) ==
  /\ contexts' = NoContexts
  /\ IF browser # NoBrowser
     THEN /\ cpc' = [cpc EXCEPT ![k] = "closingBrowser"]
          /\ closing' = [closing EXCEPT ![k] = browser]
          /\ UNCHANGED initPromise
     ELSE /\ cpc' = [cpc EXCEPT ![k] = "done"]
          /\ initPromise' = initPromiseAfterCleanup(initPromise)
          /\ UNCHANGED closing
  /\ UNCHANGED <<browser, launch, nextId, engines>>
  /\ UNCHANGED <<fetchVars, cacheVars, keyVars,
                 fetcherVars, classifyVars, laterVars>>

\* cleanup() is called: with sessions in the map it suspends in the first
\* context.close(); with none it runs on to the engine.
CleanupStart(k) ==
  /\ cpc[k] = "idle"
  /\ \A j \in Cleaners : j < k => cpc[j] # "idle"
  /\ IF DOMAIN contexts # {}
     THEN /\ cpc' = [cpc EXCEPT ![k] = "closingContexts"]
          /\ UNCHANGED poolVars
          /\ UNCHANGED <<fetchVars, cacheVars, keyVars,
                 fetcherVars, classifyVars, engineVars, laterVars>>
     ELSE CleanupAfterLoop(k)

\* The last context.close() of the loop settled (failures are logged).
CleanupContextsClosed(k) ==
  /\ cpc[k] = "closingContexts"
  /\ CleanupAfterLoop(k)

\* browser.close() settled (a failure is logged).
CleanupBrowserClosed(k) ==
  /\ cpc[k] = "closingBrowser"
  /\ browser' = NoBrowser
  /\ initPromise' = initPromiseAfterCleanup(initPromise)
  /\ cpc' = [cpc EXCEPT ![k] = "done"]
  /\ engines' = engines \ {closing[k]}
  /\ closing' = [closing EXCEPT ![k] = NoBrowser]
  /\ UNCHANGED <<launch, contexts, nextId>>
  /\ UNCHANGED <<fetchVars, cacheVars, keyVars,
                 fetcherVars, classifyVars, laterVars>>

(***************************************************************************)
(* Specification of the pool and its callers                               *)
(***************************************************************************)

\* Requests that reach the pool are those that missed the cache; the cache
\* itself is followed in SpecCache.
Init ==
  PoolInit /\ CacheInit /\ KeyIdle /\ FetcherInit /\ ClassifyIdle /\ LaterIdle

Next ==
  \/ \E c \in Callers : FetchStart(c)
  \/ \E p \in Launches : LaunchResolve(p)
  \/ \E p \in Launches : LaunchReject(p)
  \/ \E c \in Callers : AcquireResume(c)
  \/ \E c \in Callers : PollTick(c)
  \/ \E c \in Callers : CreateDone(c)
  \/ \E c \in Callers : CreateFail(c)
  \/ \E c \in Callers : CreatePageFail(c)
  \/ \E c \in Callers : PageSettled(c)
  \/ \E c \in Callers : ReturnSuccess(c)
  \/ \E c \in Callers : ReturnFailure(c)
  \/ \E k \in Cleaners : CleanupStart(k)
  \/ \E k \in Cleaners : CleanupContextsClosed(k)
  \/ \E k \in Cleaners : CleanupBrowserClosed(k)

Spec == Init /\ [][Next]_vars

SpecFair == Spec /\ \A c \in Callers : WF_vars(PollTick(c))

(***************************************************************************)
(* Properties of the pool                                                  *)
(***************************************************************************)

\* The request holds a session it acquired and has not yet released.
Holding(c) == pc[c] \in {"holding", "closing"}

AllReturned == \A c \in Callers : pc[c] \in {"idle", "done"}

PoolClean ==
  /\ contexts = NoContexts
  /\ browser = NoBrowser
  /\ initPromise = NoPromise

\* C1: in every reachable state the number of sessions with inUse = true
\* is at most browserMaxContexts.
C1_InUseWithinMax == activeCount(contexts) <= browserMaxContexts

\* C2: a session is never held by two callers at once: between the return of
\* acquireContext to a caller and that caller's release, no other caller is
\* handed the same session.
C2_ExclusiveHold ==
  \A c, d \in Callers :
    (c # d /\ Holding(c) /\ Holding(d)) => held[c] # held[d]

\* A caller that waited in the poll loop holds a session another caller
\* released, while a second caller holds a session too.
C2_Witness ==
  \E c, d \in Callers :
    /\ c # d /\ Holding(c) /\ Holding(d)
    /\ waited[c] > 0
    /\ held[c] \in DOMAIN contexts /\ contexts[held[c]]

\* C3: an acquireContext that finds the in-use count at the maximum always
\* terminates: it leaves the poll loop with a released session or with the
\* timeout error, which the fetcher classifies as Timeout, and it never
\* sleeps once timeoutMs has elapsed.
C3_AcquireTerminates ==
  /\ \A c \in Callers : (pc[c] = "polling") ~> (pc[c] \in {"holding", "done"})
  /\ [](\A c \in Callers : pc[c] = "polling" => waited[c] < TimeoutTicks)
  /\ [][\A c \in Callers :
          (pc[c] = "polling" /\ pc'[c] = "done")
            => (returned' = "Timeout" /\ contexts' = contexts)]_vars

\* A request has returned Timeout without ever holding a session: every
\* session ever created is still held by the other requests.
C3_Witness ==
  \E c \in Callers :
    /\ pc[c] = "done" /\ returned = "Timeout"
    /\ nextId = browserMaxContexts + 1
    /\ \A d \in Callers \ {c} : Holding(d) /\ contexts[held[d]]

\* C4: no session leak: every session in use is held by a request that has
\* not returned yet, on every exit path, so once all started fetches have
\* returned getStatus().activeContexts is 0.
C4_NoLeak ==
  /\ \A i \in DOMAIN contexts :
       contexts[i] => \E c \in Callers : Holding(c) /\ held[c] = i
  /\ AllReturned => getStatus.activeContexts = 0

\* All requests returned, the last one with an error, sessions remain in the
\* pool and all of them are idle.
C4_Witness ==
  /\ \A c \in Callers : pc[c] = "done"
  /\ returned = "Timeout"
  /\ Cardinality(DOMAIN contexts) >= 2
  /\ getStatus.activeContexts = 0

\* C5: single-flight initialization: as long as the pool has not been torn
\* down, concurrent callers cause at most one engine launch, every caller
\* waiting for initialization awaits that launch, and all see its outcome
\* (after a failed launch no caller gets past initialization).
C5_SingleFlight ==
  (\A k \in Cleaners : cpc[k] = "idle") =>
    /\ Cardinality({p \in Launches : launch[p] # "unused"}) <= 1
    /\ \A c \in Callers : pc[c] = "awaitInit" => awaited[c] = initPromise
    /\ (\E p \in Launches : launch[p] = "rejected") =>
         /\ browser = NoBrowser /\ contexts = NoContexts
         /\ \A c \in Callers : pc[c] \in {"idle", "awaitInit", "done"}
         /\ returned # "success"

\* Every request is waiting for the one launch, which is still in flight.
C5_Witness ==
  /\ \A k \in Cleaners : cpc[k] = "idle"
  /\ \A c \in Callers : pc[c] = "awaitInit" /\ awaited[c] = initPromise
  /\ initPromise # NoPromise /\ launch[initPromise] = "pending"

\* C6: the total number of sessions held in the pool (idle plus in use)
\* never exceeds browserMaxContexts.
C6_PoolSizeWithinMax == Cardinality(DOMAIN contexts) <= browserMaxContexts

\* C7: cleanup() is idempotent: every cleanup() returns with no engine and
\* no pending initialization, and a cleanup() called on a pool that has no
\* sessions, no engine and no pending initialization returns at once and
\* leaves the pool as it was.
C7_CleanupIdempotent ==
  [][\A k \in Cleaners :
       /\ (cpc[k] # "done" /\ cpc'[k] = "done")
            => (browser' = NoBrowser /\ initPromise' = NoPromise)
       /\ (cpc[k] = "idle" /\ cpc'[k] # "idle" /\ PoolClean)
            => (cpc'[k] = "done" /\ PoolClean' /\ launch' = launch
                /\ nextId' = nextId)]_vars

\* Both cleanup() calls have returned, sessions had been created before, and
\* the pool is empty.
C7_Witness ==
  /\ \A k \in Cleaners : cpc[k] = "done"
  /\ nextId > 1
  /\ PoolClean

\* C8: release(sessionId) only marks that session idle: the set of sessions
\* in the pool and every other session's inUse flag are unchanged, and an
\* id that is not in the pool changes nothing.
C8_ReleaseFrame ==
  [][\A c \in Callers :
       (Holding(c) /\ pc'[c] = "done") =>
         /\ DOMAIN contexts' = DOMAIN contexts
         /\ \A i \in DOMAIN contexts :
              contexts'[i] = (IF i = held[c] THEN FALSE ELSE contexts[i])
         /\ browser' = browser /\ initPromise' = initPromise
         /\ nextId' = nextId]_vars

\* A request has returned and the session it released is still in the pool,
\* idle, next to a session that is in use.
C8_Witness ==
  /\ \E c \in Callers : pc[c] = "done"
  /\ \E i, j \in DOMAIN contexts : ~contexts[i] /\ contexts[j]

(***************************************************************************)
(* Specification of the cache                                              *)
(***************************************************************************)

CacheNext ==
  \/ \E k \in CacheKeys : cacheGet(k)
  \/ \E k \in CacheKeys : cacheSet(k)
  \/ \E k \in CacheKeys : cacheHas(k)
  \/ \E k \in CacheKeys : cacheDelete(k)
  \/ \E matching \in PrefixMatches : cacheDeleteByPrefix(matching)
  \/ cacheClear
  \/ Tick

SpecCache == Init /\ [][CacheNext]_vars

(***************************************************************************)
(* Specification of cache-key generation                                   *)
(***************************************************************************)

KeyNext == GenerateKeys

InitKey ==
  PoolInit /\ CacheInit /\ KeyInit /\ FetcherInit /\ ClassifyIdle /\ LaterIdle

SpecKey == InitKey /\ [][KeyNext]_vars

(***************************************************************************)
(* Properties of the cache                                                 *)
(***************************************************************************)

\* C9: generateCacheKey does not depend on the insertion order of the
\* parameters: two records with the same key/value pairs inserted in
\* different orders give the same key, prefix:k1=v1&k2=v2 with the keys in
\* ascending order.
C9_KeyOrderIndependent ==
  (kout # NoKeys /\ Range(kin.a) = Range(kin.b)) =>
    /\ kout[1] = kout[2]
    /\ kout[1] = kin.prefix \o Colon
                   \o Join(KeyValuePairs(kin.a, SortedNames(kin.a)), Ampersand)

\* Keys were generated for a record of three parameters, an array-index key
\* among them, and a different insertion order of it.
C9_Witness ==
  /\ kout # NoKeys
  /\ Len(kin.a) = 3 /\ kin.a # kin.b
  /\ \E i \in 1..3 : IsArrayIndex(kin.a[i][1])
  /\ kout[1] = kout[2]

\* C10: the cache never holds more than cacheMaxSize entries, and
\* cacheMaxSize + 1 distinct keys set into an empty cache leave exactly
\* cacheMaxSize entries, all but the first key set.
C10_Capacity ==
  /\ Len(cache) <= cacheMaxSize
  /\ (trail # Broken /\ Len(trail) = cacheMaxSize + 1) =>
       /\ cacheStats.size = cacheMaxSize
       /\ {cache[i].key : i \in 1..Len(cache)} = Range(trail) \ {trail[1]}

\* cacheMaxSize + 1 distinct keys have been set into an empty cache.
C10_Witness == trail # Broken /\ Len(trail) = cacheMaxSize + 1

\* The entries of c that cache.set(k, ...) removed to make room.
Evicted(c, k, t) ==
  {e \in Range(c) : e.key # k /\ e \notin Range(lruSet(c, k, t))}

\* C11: reading an entry with cacheGet does not refresh its recency: the
\* entry evicted when a new key is set into a full cache is the one stored
\* earliest, so no entry that stays was stored before the evicted one.
C11_EvictsEarliestInserted ==
  [][\A k \in CacheKeys :
       (cacheSet(k) /\ lruIndex(cache, k) = 0 /\ Len(cache) = cacheMaxSize)
         => \A e \in Evicted(cache, k, now) :
              \A f \in Range(cache) : e.start <= f.start]_vars

\* A cacheGet or cacheHas of key k is answered in this step.
Reads(k) == cacheGet(k) \/ cacheHas(k)

\* The answer of a cacheGet or cacheHas that did not reach an entry.
Unreachable == {"undefined", "false"}

\* C12 as stated: an entry stored at time t and still in the cache is
\* unreachable through cacheGet and cacheHas at every time >= t + TTL.
C12_UnreachableFromTtl ==
  [][\A k \in CacheKeys :
       (Reads(k) /\ setAt[k] # Never /\ now >= setAt[k] + cacheTtlTicks)
         => ret' \in Unreachable]_vars

\* C12 amended: an entry stored at time t is unreachable through cacheGet
\* and cacheHas at every time > t + TTL, whatever cacheGet and cacheHas
\* calls came in between; a key whose entry was evicted or deleted is
\* unreachable at any time.
C12_UnreachableAfterTtl ==
  [][\A k \in CacheKeys :
       (Reads(k) /\ (setAt[k] = Never \/ now > setAt[k] + cacheTtlTicks))
         => ret' \in Unreachable]_vars

\* cacheHas of a key has just answered false while its entry, stored more
\* than TTL ago and read with a hit since, is still in the cache.
C12_Witness ==
  /\ asked # NoKey /\ ret = "false" /\ hits > 0
  /\ \E i \in 1..Len(cache) :
       /\ cache[i].key = asked
       /\ setAt[asked] = cache[i].start
       /\ now > setAt[asked] + cacheTtlTicks

\* C13: the hit and miss counters are cumulative: every cacheGet increments
\* exactly one of them (hits exactly when it returns a value), cacheSet,
\* cacheHas, cacheDelete and cacheDeleteByPrefix leave both unchanged,
\* cacheClear sets both to 0, nothing else changes them, and
\* cacheStats().hitRate is hits / (hits + misses), 0 when there was no call.
C13_CountersCumulative ==
  /\ [][/\ \A k \in CacheKeys :
             /\ cacheGet(k) =>
                  /\ hits' + misses' = hits + misses + 1
                  /\ hits' = (IF ret' = "value" THEN hits + 1 ELSE hits)
                  /\ misses' = (IF ret' = "value" THEN misses ELSE misses + 1)
             /\ (cacheSet(k) \/ cacheHas(k) \/ cacheDelete(k))
                  => (hits' = hits /\ misses' = misses)
        /\ \A matching \in PrefixMatches :
             cacheDeleteByPrefix(matching) => (hits' = hits /\ misses' = misses)
        /\ cacheClear => (hits' = 0 /\ misses' = 0)
        /\ (hits' < hits \/ misses' < misses) => cacheClear]_vars
  /\ [](/\ cacheStats.hits = hits /\ cacheStats.misses = misses
        /\ hits + misses = 0 => cacheStats.hitRate = Ratio(0, 1)
        /\ hits + misses > 0 =>
             /\ cacheStats.hitRate[1] * (hits + misses)
                  = hits * cacheStats.hitRate[2]
             /\ cacheStats.hitRate[2] > 0)

\* One hit and one miss have been counted and a cacheDeleteByPrefix has
\* just deleted an entry: the hit rate is 1/2.
C13_Witness ==
  /\ hits = 1 /\ misses = 1
  /\ ret = "1"
  /\ cacheStats.hitRate = <<1, 2>>

(***************************************************************************)
(* Specification of the fetchers: calls one after the other, and the       *)
(* clock. The cache is written by the fetchers only.                       *)
(***************************************************************************)

FetchNext ==
  \/ fetchYouTubeTranscript("video")
  \/ YtDlpSettled
  \/ NpmSettled
  \/ \E request \in Requests : fetchContent(request)
  \/ ContentSettled
  \/ \E request \in Requests : fetchTwitterContent(request)
  \/ NitterSettled
  \/ DirectSettled
  \/ Tick

SpecFetch == Init /\ [][FetchNext]_vars

(***************************************************************************)
(* Properties of the fetchers                                              *)
(***************************************************************************)

\* The property that carries the payload of each kind of result.
PayloadField == [transcript |-> "transcript", content |-> "content",
                 twitter |-> "content"]

Returned == fpc = "done"

\* The entry under key k is in the cache and younger than the TTL.
Fresh(k) ==
  /\ lruIndex(cache, k) # 0
  /\ setAt[k] # Never /\ now < setAt[k] + cacheTtlTicks

\* C14: every result a fetcher returns, fresh or served from the cache, is
\* either success = true with the payload present and error and errorType
\* absent, or success = false with error and errorType present and the
\* payload absent.
C14_SuccessXorError ==
  Returned =>
    /\ "success" \in DOMAIN fres
    /\ fres.success =>
         /\ PayloadField[freq.kind] \in DOMAIN fres
         /\ DOMAIN fres \cap {"error", "errorType"} = {}
    /\ ~fres.success =>
         /\ {"error", "errorType"} \subseteq DOMAIN fres
         /\ PayloadField[freq.kind] \notin DOMAIN fres

\* A transcript has been served from the cache.
C14_Witness ==
  /\ Returned /\ freq.kind = "transcript" /\ IsSuccess(fres)
  /\ fres.source = "cache" /\ calls = NoCalls

\* C15: no fetcher call rejects: whatever a collaborator did (acquire
\* timeout, launch failure, createPage, navigation or evaluate error,
\* subprocess or file failure, library failure, page.close failure), the
\* call resolves with a structured result.
C15_NeverRejects ==
  Returned => ("rejected" \notin DOMAIN fres /\ "success" \in DOMAIN fres)

\* A page fetch whose session could not be acquired in time has returned a
\* Timeout result.
C15_Witness ==
  /\ Returned /\ freq.kind = "content" /\ calls.sessions = 1
  /\ "errorType" \in DOMAIN fres /\ fres.errorType = "Timeout"
  /\ fres.error = <<"T", "i", "m", "e", "o", "u", "t", " ", "w", "a", "i", "t", "i", "n", "g", " ", "f", "o", "r", " ", "b", "r", "o", "w", "s", "e", "r", " ", "c", "o", "n", "t", "e", "x", "t", " ", "(", "6", "0", "0", "0", "0", "m", "s", ")">>

\* C16: only successful results are cached: every cached value has
\* success = true, and a key becomes reachable or changes its value only
\* in the step in which a fetcher returns a successful result, which is
\* the value stored.
C16_CachedOnlyOnSuccess ==
  /\ [](\A i \in 1..Len(cache) : IsSuccess(values[cache[i].key]))
  /\ [][\A k \in CacheKeys :
          (/\ lruIndex(cache', k) # 0
           /\ lruIndex(cache, k) = 0 \/ values'[k] # values[k]
                \/ cache'[lruIndex(cache', k)].start
                     # cache[lruIndex(cache, k)].start)
            => (Returned' /\ IsSuccess(fres') /\ values'[k] = fres'
                /\ k = FetchKey[freq.kind])]_vars

\* A fetch has returned a failure after invoking a backend, its key is not
\* in the cache and another key is.
C16_Witness ==
  /\ Returned /\ "success" \in DOMAIN fres /\ ~fres.success
  /\ calls # NoCalls
  /\ lruIndex(cache, FetchKey[freq.kind]) = 0
  /\ Len(cache) > 0

\* The properties of a cached result a cache hit replaces: the source and
\* elapsed-time tags (and the flag that marks a transcript as cached).
TagFields == {"source", "fetchTimeMs", "cached", "metadata"}
MetadataTagFields == {"method", "latencyMs"}

\* C17: a fetcher entered for a valid request whose entry is in the cache
\* and younger than the TTL returns at once, without acquiring a session
\* or invoking a backend, with the stored result except for the source
\* tag and the elapsed time (transcripts: source = cache, fetchTimeMs = 0).
C17_SecondFetchHits ==
  [][\A kind \in DOMAIN FetchKey :
       (/\ freq'.kind = kind /\ freq'.valid
        /\ ~Returned \/ fres' # fres \/ freq' # freq \/ hits' # hits
             \/ misses' # misses
        /\ fpc \in {"idle", "done"}
        /\ Fresh(FetchKey[kind]))
         => LET first == values[FetchKey[kind]] IN
            /\ Returned' /\ calls' = NoCalls /\ hits' = hits + 1
            /\ IsSuccess(fres')
            /\ \A f \in DOMAIN first \ TagFields : fres'[f] = first[f]
            /\ DOMAIN first \subseteq DOMAIN fres'
            /\ kind = "transcript" =>
                 (fres'.source = "cache" /\ fres'.fetchTimeMs = "0")
            /\ kind = "content" =>
                 /\ fres'.metadata.method = "cache"
                 /\ \A f \in DOMAIN first.metadata \ MetadataTagFields :
                      fres'.metadata[f] = first.metadata[f]]_vars

\* A page has been served from the cache after the clock moved on, the
\* stored result having come from the browser.
C17_Witness ==
  /\ Returned /\ freq.kind = "content" /\ freq.valid
  /\ calls = NoCalls /\ IsSuccess(fres)
  /\ fres.metadata.method = "cache"
  /\ values[FetchKey.content].metadata.method = "playwright"
  /\ now > setAt[FetchKey.content]

\* The error types of the failures the fallback is not meant for.
NonRetryableTypes ==
  {"TranscriptNotFound", "TranscriptsDisabled", "VideoNotFound",
   "PrivateVideo", "AgeRestricted"}

\* C18: the transcript fallback is invoked at most once per fetch, never
\* after a cache hit or a primary success, and never after a primary
\* failure of a non-retryable type.
C18_FallbackOnlyWhenRetryable ==
  freq.kind = "transcript" =>
    /\ calls.fallback <= 1
    /\ (fpc = "npm" \/ calls.fallback > 0) => calls.primary = 1
    /\ fpc = "npm" =>
         /\ "success" \in DOMAIN fres /\ ~fres.success
         /\ fres.errorType \notin NonRetryableTypes

(***************************************************************************)
(* Classification of failure messages                                      *)
(***************************************************************************)

ClassifyNext == Classify

InitClassify ==
  PoolInit /\ CacheInit /\ KeyIdle /\ FetcherInit /\ ClassifyInit /\ LaterIdle

SpecClassify == InitClassify /\ [][ClassifyNext]_vars

Classified == cout # NoTypes

\* The ordered rule set: the substrings of each rule and its type.
Rules ==
  << [parts |-> {"timeout"}, type |-> "Timeout"],
     [parts |-> {"net::", "network"}, type |-> "NetworkError"],
     [parts |-> {"blocked", "403"}, type |-> "Blocked"],
     [parts |-> {"404", "not found"}, type |-> "NotFound"],
     [parts |-> {"500", "502", "503"}, type |-> "ServerError"] >>

\* The rules with a substring that the lower-cased text includes.
Matching(text) ==
  {i \in 1..Len(Rules) :
     \E t \in Rules[i].parts : includes(toLowerCase(text), TriggerText(t))}

EarliestType(text) ==
  IF Matching(text) = {} THEN "Unknown"
  ELSE Rules[CHOOSE i \in Matching(text) : \A j \in Matching(text) : i <= j].type

\* C19: for every message, both classifiers return the type of the earliest
\* rule of the ordered rule set that has a substring in the lower-cased
\* message, and Unknown when no rule has one; the two classifiers agree.
C19_FirstMatch ==
  Classified =>
    /\ cout[1] = EarliestType(cin)
    /\ cout[2] = cout[1]

\* A classified message that matches several rules.
C19_Witness ==
  /\ Classified
  /\ Cardinality(Matching(cin)) >= 2
  /\ cout[1] = "NetworkError"

NetErrTimedOut == <<"n", "e", "t", ":", ":", "E", "R", "R", "_", "T", "I", "M", "E", "D", "_", "O", "U", "T">>

\* C20: a message containing "net::ERR_TIMED_OUT" classifies as Timeout; a
\* message containing "403" (and no substring of an earlier rule) classifies
\* as Blocked; a message matching no rule classifies as Unknown.
C20_Examples ==
  Classified =>
    /\ includes(cin, NetErrTimedOut) => cout[1] = "Timeout"
    /\ (includes(cin, TriggerText("403")) /\ \A i \in Matching(cin) : i >= 3)
         => cout[1] = "Blocked"
    /\ Matching(cin) = {} => cout[1] = "Unknown"

(***************************************************************************)
(* Routes: the HTTP status of the response to a fetch                      *)
(***************************************************************************)

\* getStatusCode of routes/content.ts; routes/twitter.ts has the same one.
getStatusCode(errorType) ==
  CASE errorType = "InvalidUrl" -> 400
    [] errorType = "NotFound" -> 404
    [] errorType = "Blocked" -> 403
    [] errorType = "Timeout" -> 504
    [] OTHER -> 500

\* The transcript route: res.json(result) or res.status(404).json(result).
transcriptStatus(result) == IF result.success THEN 200 ELSE 404

\* The status a route answers with for what its fetcher returned; a
\* rejection is caught by the route and answered with 500.
routeStatus(kind, result) ==
  IF "rejected" \in DOMAIN result THEN 500
  ELSE IF kind = "transcript" THEN transcriptStatus(result)
  ELSE IF result.success THEN 200
  ELSE getStatusCode(IF "errorType" \in DOMAIN result
                     THEN result.errorType ELSE "undefined")

\* The fetcher call has returned a failed result.
Failed == Returned /\ "success" \in DOMAIN fres /\ ~fres.success

\* C21: for every failed result of the three fetchers the status of the
\* response depends on errorType alone: InvalidUrl -> 400, NotFound -> 404,
\* Blocked -> 403, Timeout -> 504, every other errorType -> 500.
C21_StatusFromErrorType ==
  Failed =>
    routeStatus(freq.kind, fres) =
      (CASE fres.errorType = "InvalidUrl" -> 400
         [] fres.errorType = "NotFound" -> 404
         [] fres.errorType = "Blocked" -> 403
         [] fres.errorType = "Timeout" -> 504
         [] OTHER -> 500)

(***************************************************************************)
(* Termination signal                                                      *)
(***************************************************************************)

\* Of the two handlers of a signal, the server's is registered last; it is
\* the one that calls process.exit(0) once its cleanup() has resolved.
ServerHandler == 2

\* The step in which the server's handler resumes from `await
\* browserPool.cleanup()` and calls process.exit(0).
Exits == cpc[ServerHandler] # "done" /\ cpc'[ServerHandler] = "done"

\* C25: process.exit is never reached while the engine or a session is
\* still open (a session lives in an engine and is closed with it): when
\* the server's handler exits, no launched engine is left unclosed and no
\* engine is being launched.
C25_ClosedBeforeExit ==
  [][Exits => (engines' = {} /\ \A p \in Launches : launch'[p] # "pending")]_vars

\* ---------------------------------------------------------------------
\* Atomicity of acquire
\* ---------------------------------------------------------------------

\* A call that passed the capacity check and is suspended in
\* `await this.browser.newContext()`, its session not yet in the map.
Unrecorded(c) == pc[c] = "creating"

\* C27: acquireContext does not suspend between the capacity check and
\* the recording of the session in the map, so no two calls are ever both
\* past the check with their sessions still unrecorded.
C27_AcquireAtomic ==
  \A c \in Callers : \A d \in Callers \ {c} : ~(Unrecorded(c) /\ Unrecorded(d))

\* ---------------------------------------------------------------------
\* The page extractor
\* ---------------------------------------------------------------------

\* C30: fetchContent entered with a url that `new URL` rejects returns at
\* once success = false with errorType InvalidUrl and leaves the shared
\* state as it was: no cache lookup (hits and misses unchanged), no cache
\* write, no pool initialization, no session acquired, no page created.
C30_InvalidUrlFailsFast ==
  [][(/\ fpc \in {"idle", "done"} /\ now' = now
      /\ freq'.kind = "content" /\ ~freq'.valid)
       => /\ Returned' /\ "success" \in DOMAIN fres' /\ ~fres'.success
          /\ fres'.errorType = "InvalidUrl"
          /\ calls' = NoCalls
          /\ UNCHANGED <<cacheVars, values, poolVars, fetchVars, engineVars>>]_vars

\* An invalid url has been refused while the cache held an entry and the
\* counters had counted lookups.
C30_Witness ==
  /\ Returned /\ freq.kind = "content" /\ ~freq.valid
  /\ "errorType" \in DOMAIN fres /\ fres.errorType = "InvalidUrl"
  /\ calls = NoCalls
  /\ Len(cache) > 0 /\ hits > 0 /\ misses > 0

\* C28: a successful result of the page extractor is cached only when its
\* word count meets the minimum: after a successful fetchContent that
\* extracted an empty text, the cache holds no entry for the url.
C28_CachedOnlyWithWords ==
  (/\ Returned /\ freq.kind = "content" /\ IsSuccess(fres)
   /\ fres.metadata.method = "playwright"
   /\ fres.metadata.wordCount = 0)
    => lruIndex(cache, FetchKey.content) = 0

\* C29: the wait selector not appearing within its timeout never makes
\* fetchContent fail: no page fetch returns a failure whose error is the
\* selector's timeout.
C29_SelectorAbsenceTolerated ==
  ~(/\ Failed /\ freq.kind = "content"
    /\ fres.error = SelectorTimeoutMsg)

(***************************************************************************)
(* Social-post urls. A url is what `new URL(url)` makes of it: it does not *)
(* parse, or it has a hostname and a pathname; the pathname is a text.     *)
(***************************************************************************)

MaxSegments == 3

\* The path segments the urls are built from.
Segments ==
  {<<"f", "o", "o">>, <<"i">>, <<"s", "t", "a", "t", "u", "s">>, <<"1", "2", "3">>, <<"7">>, <<"1", "2", "3", "a", "b", "c">>}

Hostnames ==
  {"twitter.com", "x.com", "www.twitter.com", "www.x.com",
   "mobile.twitter.com", "mobile.x.com", "nitter.net", "x.com.example.org"}

Slash == <<"/">>

\* "/" followed by the segments, joined by "/".
PathOf(segments) == Slash \o Join(segments, Slash)

Paths ==
  {PathOf(segments) :
     segments \in UNION {[1..n -> Segments] : n \in 0..MaxSegments}}

Urls ==
  {NoUrl} \cup {[parses |-> TRUE, hostname |-> h, pathname |-> path] :
                  h \in Hostnames, path \in Paths}

DigitCharacters == {"0", "1", "2", "3", "4", "5", "6", "7", "8", "9"}

StatusText == <<"/", "s", "t", "a", "t", "u", "s", "/">>

\* [^/]+ from index i: the index of the last character of the run.
RECURSIVE segmentEnd(_, _)
segmentEnd(text, i) ==
  IF i <= Len(text) /\ text[i] # "/" THEN segmentEnd(text, i + 1) ELSE i - 1

\* \d+ from index i: the index of the last character of the run.
RECURSIVE digitsEnd(_, _)
digitsEnd(text, i) ==
  IF i <= Len(text) /\ text[i] \in DigitCharacters
  THEN digitsEnd(text, i + 1) ELSE i - 1

NoMatch == <<>>

\* /\/([^/]+)\/status\/(\d+)/ tried at index i: the two groups.
statusMatchAt(pathname, i) ==
  LET e == segmentEnd(pathname, i + 1)
      from == e + 1 + Len(StatusText)
      d == digitsEnd(pathname, from) IN
  IF /\ pathname[i] = "/" /\ e > i
     /\ e + Len(StatusText) <= Len(pathname)
     /\ SubSeq(pathname, e + 1, e + Len(StatusText)) = StatusText
     /\ d >= from
  THEN <<SubSeq(pathname, i + 1, e), SubSeq(pathname, from, d)>>
  ELSE NoMatch

\* pathname.match(/\/([^/]+)\/status\/(\d+)/): the leftmost match.
statusMatch(pathname) ==
  LET starts == {i \in 1..Len(pathname) : statusMatchAt(pathname, i) # NoMatch} IN
  IF starts = {} THEN NoMatch
  ELSE statusMatchAt(pathname, CHOOSE i \in starts : \A j \in starts : i <= j)

validHosts ==
  {"twitter.com", "x.com", "www.twitter.com", "www.x.com",
   "mobile.twitter.com", "mobile.x.com"}

NoTweet == [none |-> TRUE]

XCom == <<"h", "t", "t", "p", "s", ":", "/", "/", "x", ".", "c", "o", "m">>

\* parseTwitterUrl with the request's host kept in normalizedUrl.
parseTwitterUrlKeepsHost(url) ==
  IF ~url.parses THEN NoTweet
  ELSE IF url.hostname \notin validHosts THEN NoTweet
  ELSE IF statusMatch(url.pathname) = NoMatch THEN NoTweet
  ELSE LET m == statusMatch(url.pathname) IN
       [username |-> m[1], statusId |-> m[2],
        normalizedUrl |-> <<url.hostname>> \o Slash \o m[1] \o StatusText \o m[2]]

parseTwitterUrl(url) ==
  IF ~url.parses THEN NoTweet
  ELSE IF url.hostname \notin validHosts THEN NoTweet
  ELSE IF statusMatch(url.pathname) = NoMatch THEN NoTweet
  ELSE LET m == statusMatch(url.pathname) IN
       [username |-> m[1], statusId |-> m[2],
        normalizedUrl |-> XCom \o Slash \o m[1] \o StatusText \o m[2]]

\* The request as fetchTwitterContent sees it after
\* `const tweetInfo = parseTwitterUrl(url)`.
TwitterRequest(url) ==
  [kind |-> "twitter", valid |-> parseTwitterUrl(url) # NoTweet,
   tweetInfo |-> parseTwitterUrl(url)]

\* fetchTwitterContent({url}) up to its first await.
FetchPost == fetchTwitterContent(TwitterRequest(uin))

UrlInit == uin \in Urls

UrlNext == FetchPost

InitUrl ==
  /\ PoolInit /\ CacheInit /\ KeyIdle /\ FetcherInit /\ ClassifyIdle
  /\ UrlInit /\ VttIdle /\ TempIdle /\ RateIdle /\ BatchIdle

SpecUrl == InitUrl /\ [][UrlNext]_vars

\* The hosts the service accepts: x.com and twitter.com, bare or with www.
\* or mobile. in front.
AcceptedHosts ==
  {"x.com", "www.x.com", "mobile.x.com",
   "twitter.com", "www.twitter.com", "mobile.twitter.com"}

\* The segments that are numeric ids.
NumericIds ==
  {id \in Segments : \A i \in 1..Len(id) : id[i] \in DigitCharacters}

\* Some segment of the path is `status`.
HasStatusSegment(pathname) == includes(pathname \o Slash, StatusText)

\* https://x.com/<handle>/status/<id>
Canonical(handle, id) ==
  <<"h", "t", "t", "p", "s", ":", "/", "/", "x", ".", "c", "o", "m", "/">> \o handle \o <<"/", "s", "t", "a", "t", "u", "s", "/">> \o id

\* C22: a url on an accepted host with path /<handle>/status/<id> is
\* normalized to https://x.com/<handle>/status/<id> whatever the host, and
\* its cache entry is looked up; a url that does not parse, whose host is
\* not accepted or whose path has no status segment is refused with
\* InvalidUrl before any cache or pool access.
C22_NormalizedOrRejected ==
  [][(fpc \in {"idle", "done"} /\ freq'.kind = "twitter")
       => /\ \A handle \in Segments : \A id \in NumericIds :
               (/\ uin.parses /\ uin.hostname \in AcceptedHosts
                /\ uin.pathname = PathOf(<<handle, <<"s", "t", "a", "t", "u", "s">>, id>>))
                 => /\ freq'.valid
                    /\ freq'.tweetInfo.normalizedUrl = Canonical(handle, id)
                    /\ hits' + misses' = hits + misses + 1
          /\ (\/ ~uin.parses
              \/ uin.hostname \notin AcceptedHosts
              \/ ~HasStatusSegment(uin.pathname))
               => /\ Returned' /\ "success" \in DOMAIN fres' /\ ~fres'.success
                  /\ fres'.errorType = "InvalidUrl"
                  /\ calls' = NoCalls
                  /\ UNCHANGED <<cacheVars, values, poolVars, fetchVars,
                                 engineVars>>]_vars

\* A post given by its mobile.twitter.com url has been accepted and
\* normalized to its x.com form, and the cache has been looked up.
C22_Witness ==
  /\ freq.kind = "twitter" /\ freq.valid
  /\ uin.hostname = "mobile.twitter.com"
  /\ freq.tweetInfo.normalizedUrl = <<"h", "t", "t", "p", "s", ":", "/", "/", "x", ".", "c", "o", "m", "/", "f", "o", "o", "/", "s", "t", "a", "t", "u", "s", "/", "1", "2", "3">>
  /\ misses = 1

(***************************************************************************)
(* The files fetchWithYtDlp leaves behind. Files are named by what follows *)
(* the call's temp basename `yt_<videoId>_<Date.now()>`; only files with   *)
(* that basename are followed.                                             *)
(***************************************************************************)

\* What yt-dlp can write for `-o <tempBase>`: one subtitle file per
\* language matched by --sub-langs, and a partial download.
FileSuffixes == {".en.vtt", ".es.vtt", ".en.vtt.part"}

\* f.endsWith('.vtt')
endsWithVtt(f) == f \in {".en.vtt", ".es.vtt"}

\* One call: whether the --list-subs command threw, what it listed,
\* whether the download command threw, the files it wrote, and whether
\* readFile threw.
TempRun(listThrows, listing, fetchThrows, written, readThrows) ==
  [listThrows |-> listThrows, listing |-> listing,
   fetchThrows |-> fetchThrows, written |-> written,
   readThrows |-> readThrows]

\* A download that ran to its end leaves no partial file.
TempRuns ==
  {run \in {TempRun(lt, l, ft, w, rt) :
              lt \in BOOLEAN, l \in Listings, ft \in BOOLEAN,
              w \in SUBSET FileSuffixes, rt \in BOOLEAN} :
     ".en.vtt.part" \in run.written => run.fetchThrows}

\* f.startsWith(tempBasename)
startsWithBasename(f) == f \in FileSuffixes

\* The catch block: every file of the directory that starts with the
\* basename is unlinked.
catchCleanup(files) == {f \in files : ~startsWithBasename(f)}

\* The files with the call's basename that can be in the temp directory
\* when fetchWithYtDlp returns (files.find takes the first .vtt file in
\* directory order, which is any of them).
filesLeft(run) ==
  IF run.listThrows THEN {catchCleanup({})}
  ELSE IF run.listing \in {"unavailable", "age", "none"} THEN {{}}
  ELSE IF run.fetchThrows THEN {catchCleanup(run.written)}
  ELSE IF ~\E f \in run.written : endsWithVtt(f) THEN {run.written}
  ELSE IF run.readThrows THEN {catchCleanup(run.written)}
  ELSE {run.written \ {vttFile} :
          vttFile \in {f \in run.written : endsWithVtt(f)}}

\* fetchWithYtDlp ran to its return.
RunYtDlp ==
  /\ tout = NoFiles
  /\ tout' \in filesLeft(tin)
  /\ UNCHANGED <<tin, uin, vin, vout, rateLimitMap, admitted, ytdlp, tempDir>>
  /\ UNCHANGED <<poolVars, fetchVars, cpc, cacheVars, keyVars, fetcherVars,
                 classifyVars, engineVars>>

TempInit == tin \in TempRuns /\ tout = NoFiles

TempNext == RunYtDlp

InitTemp ==
  /\ PoolInit /\ CacheInit /\ KeyIdle /\ FetcherInit /\ ClassifyIdle
  /\ UrlIdle /\ VttIdle /\ TempInit /\ RateIdle /\ BatchIdle

SpecTemp == InitTemp /\ [][TempNext]_vars

\* C24: when fetchWithYtDlp returns, on every path and however many files
\* the tool wrote, no file with the call's temp basename is left in the
\* temp directory.
C24_NoTempFilesLeft ==
  tout # NoFiles => tout = {}

(***************************************************************************)
(* The subtitle parser. The content is the sequence of its lines; a line   *)
(* either holds two timestamps around `-->` or is a text. Times are        *)
(* counted in milliseconds.                                                *)
(***************************************************************************)

MaxLines == 5

\* HH:MM:SS.mmm
Timestamp(hh, mm, ss, mmm) == [hh |-> hh, mm |-> mm, ss |-> ss, mmm |-> mmm]

StampLine(from, to) == [stamp |-> TRUE, from |-> from, to |-> to]

TextLine(text) == [stamp |-> FALSE, text |-> text]

VttLines ==
  {StampLine(Timestamp(0, 0, 1, 0), Timestamp(0, 0, 3, 500)),
   StampLine(Timestamp(0, 0, 3, 500), Timestamp(0, 0, 5, 0)),
   StampLine(Timestamp(1, 2, 3, 250), Timestamp(1, 2, 4, 0)),
   TextLine("Hello world"), TextLine("Goodbye"), TextLine(""),
   TextLine("WEBVTT"), TextLine("Kind: captions")}

VttContents == UNION {[1..n -> VttLines] : n \in 0..MaxLines}

\* hours * 3600 + minutes * 60 + seconds, in milliseconds
parseVttTimestamp(timestamp) ==
  (timestamp.hh * 3600 + timestamp.mm * 60 + timestamp.ss) * 1000
    + timestamp.mmm

\* The segment pushed when a block is flushed.
pushed(st) ==
  [start |-> st.currentStart, duration |-> st.currentEnd - st.currentStart,
   text |-> st.currentText]

\* `if (currentText) segments.push(...)`
flush(st) ==
  IF st.currentText # "" THEN Append(st.segments, pushed(st)) ELSE st.segments

\* One turn of the loop over the lines.
parseVttLine(line, st) ==
  IF line.stamp
  THEN [segments |-> flush(st),
        currentStart |-> parseVttTimestamp(line.from),
        currentEnd |-> parseVttTimestamp(line.to),
        currentText |-> ""]
  ELSE IF line.text # "" /\ line.text # "WEBVTT" /\ line.text # "NOTE"
  THEN [st EXCEPT !.currentText =
          IF @ # "" THEN @ \o " " \o line.text ELSE line.text]
  ELSE st

RECURSIVE parseVttLoop(_, _, _)
parseVttLoop(lines, i, st) ==
  IF i > Len(lines) THEN st
  ELSE parseVttLoop(lines, i + 1, parseVttLine(lines[i], st))

parseVttSubtitles(lines) ==
  flush(parseVttLoop(lines, 1,
                     [segments |-> <<>>, currentStart |-> 0,
                      currentEnd |-> 0, currentText |-> ""]))

\* parseVttSubtitles(vttContent)
ParseVtt ==
  /\ vout = NoSegments
  /\ vout' = parseVttSubtitles(vin)
  /\ UNCHANGED <<vin, uin, tin, tout, rateLimitMap, admitted, ytdlp, tempDir>>
  /\ UNCHANGED <<poolVars, fetchVars, cpc, cacheVars, keyVars, fetcherVars,
                 classifyVars, engineVars>>

VttInit == vin \in VttContents /\ vout = NoSegments

VttNext == ParseVtt

InitVtt ==
  /\ PoolInit /\ CacheInit /\ KeyIdle /\ FetcherInit /\ ClassifyIdle
  /\ UrlIdle /\ VttInit /\ TempIdle /\ RateIdle /\ BatchIdle

SpecVtt == InitVtt /\ [][VttNext]_vars

\* The indices of the timestamp lines (the cues), in source order.
CueLines(lines) == {i \in 1..Len(lines) : lines[i].stamp}

\* The last line of the cue that starts at line i.
CueEnd(lines, i) ==
  IF \E j \in CueLines(lines) : j > i
  THEN (CHOOSE j \in CueLines(lines) :
          j > i /\ \A k \in CueLines(lines) : k > i => j <= k) - 1
  ELSE Len(lines)

\* The texts of lines from..to joined by single spaces, blank lines and
\* the WEBVTT line left out.
RECURSIVE BlockText(_, _, _)
BlockText(lines, from, to) ==
  IF from > to THEN ""
  ELSE LET rest == BlockText(lines, from + 1, to)
           text == lines[from].text IN
       IF text \in {"", "WEBVTT"} THEN rest
       ELSE IF rest = "" THEN text ELSE text \o " " \o rest

\* The segment of the cue that starts at line i.
CueSegment(lines, i) ==
  [start |-> parseVttTimestamp(lines[i].from),
   duration |-> parseVttTimestamp(lines[i].to)
                  - parseVttTimestamp(lines[i].from),
   text |-> BlockText(lines, i + 1, CueEnd(lines, i))]

\* The cues that have text.
SpokenCues(lines) ==
  {i \in CueLines(lines) : BlockText(lines, i + 1, CueEnd(lines, i)) # ""}

\* C23: parseVttSubtitles produces one segment per cue, in source order:
\* the n-th segment has the start, the duration (end - start) and the text
\* of the n-th cue that has text, and there are no other segments.
C23_OneSegmentPerCue ==
  vout # NoSegments =>
    /\ Len(vout) = Cardinality(SpokenCues(vin))
    /\ \A i \in SpokenCues(vin) :
         vout[Cardinality({j \in SpokenCues(vin) : j <= i})]
           = CueSegment(vin, i)

\* The two cues of the documented example give its two segments.
VttExample ==
  (vout # NoSegments
   /\ vin = <<StampLine(Timestamp(0, 0, 1, 0), Timestamp(0, 0, 3, 500)),
              TextLine("Hello world"), TextLine(""),
              StampLine(Timestamp(0, 0, 3, 500), Timestamp(0, 0, 5, 0)),
              TextLine("Goodbye")>>)
    => vout = <<[start |-> 1000, duration |-> 2500, text |-> "Hello world"],
                [start |-> 3500, duration |-> 1500, text |-> "Goodbye"]>>

(***************************************************************************)
(* The rate limiter. Date.now() is the clock `now`, in ticks.              *)
(***************************************************************************)

\* RATE_LIMIT_WINDOW_MS, in ticks of the clock.
rateLimitWindowTicks == 2

\* RATE_LIMIT_MAX_REQUESTS
rateLimitMaxRequests == 2

\* req.ip of the clients
ClientIps == {"10.0.0.1", "10.0.0.2"}

\* rateLimitMap.get(key) of a key that is not in the map
NoEntry == [absent |-> TRUE]

\* The entry the request counts in: a new one when there is none or the
\* old one has run out.
currentEntry(entry, time) ==
  IF entry = NoEntry \/ time > entry.resetTime
  THEN [count |-> 0, resetTime |-> time + rateLimitWindowTicks]
  ELSE entry

\* The admissions that lie in the interval of one window's length that
\* ends at time.
Recent(times, time) ==
  SelectSeq(times, LAMBDA t : t > time - rateLimitWindowTicks)

\* rateLimit(req, res, next) for a request of client ip: next() unless the
\* count of the entry exceeds the maximum (then 429). Requests after the
\* first refused one of a window are not followed.
rateLimit(ip) ==
  LET entry == currentEntry(rateLimitMap[ip], now) IN
  /\ entry.count <= rateLimitMaxRequests
  /\ rateLimitMap' = [rateLimitMap EXCEPT ![ip] = [entry EXCEPT !.count = @ + 1]]
  /\ admitted' =
       [admitted EXCEPT ![ip] =
          IF entry.count + 1 > rateLimitMaxRequests
          THEN Recent(@, now)
          ELSE Append(Recent(@, now), now)]
  /\ UNCHANGED <<uin, vin, vout, tin, tout, ytdlp, tempDir>>
  /\ UNCHANGED <<poolVars, fetchVars, cpc, cacheVars, keyVars, fetcherVars,
                 classifyVars, engineVars>>

\* The setInterval callback: entries that have run out are deleted.
CleanupOldEntries ==
  /\ \E ip \in ClientIps :
       rateLimitMap[ip] # NoEntry /\ now > rateLimitMap[ip].resetTime
  /\ rateLimitMap' =
       [ip \in ClientIps |->
          IF rateLimitMap[ip] # NoEntry /\ now > rateLimitMap[ip].resetTime
          THEN NoEntry ELSE rateLimitMap[ip]]
  /\ UNCHANGED <<uin, vin, vout, tin, tout, admitted, ytdlp, tempDir>>
  /\ UNCHANGED <<poolVars, fetchVars, cpc, cacheVars, keyVars, fetcherVars,
                 classifyVars, engineVars>>

RateInit ==
  /\ rateLimitMap = [ip \in ClientIps |-> NoEntry]
  /\ admitted = [ip \in ClientIps |-> <<>>]

RateNext ==
  \/ \E ip \in ClientIps : rateLimit(ip)
  \/ CleanupOldEntries
  \/ Tick

InitRate ==
  /\ PoolInit /\ CacheInit /\ KeyIdle /\ FetcherInit /\ ClassifyIdle
  /\ UrlIdle /\ VttIdle /\ TempIdle /\ RateInit /\ BatchIdle

SpecRate == InitRate /\ [][RateNext]_vars

\* C26: in any interval of one window's length, no more than
\* rateLimitMaxRequests requests of the same client are passed on to the
\* routes.
C26_AtMostMaxPerInterval ==
  \A ip \in ClientIps :
    Len(Recent(admitted[ip], now)) <= rateLimitMaxRequests

\* C39: parseVttSubtitles emits a segment only for text that follows a
\* timestamp line: there are no more segments than timestamp lines, and
\* every segment is the segment of one of the cues, so that no line that
\* precedes the first cue appears in a segment.
C39_SegmentsOnlyFromCues ==
  vout # NoSegments =>
    /\ Len(vout) <= Cardinality(CueLines(vin))
    /\ \A n \in 1..Len(vout) :
         \E i \in CueLines(vin) : vout[n] = CueSegment(vin, i)

\* C31: parseTwitterUrl accepts a url only if its whole path is
\* /<handle>/status/<digits>, and then the handle extracted is the first
\* segment and the id the complete third segment.
C31_WholePathMatches ==
  (freq.kind = "twitter" /\ freq.valid)
    => \E handle \in Segments : \E id \in NumericIds :
         /\ uin.pathname = PathOf(<<handle, <<"s", "t", "a", "t", "u", "s">>, id>>)
         /\ freq.tweetInfo.username = handle
         /\ freq.tweetInfo.statusId = id

\* ---------------------------------------------------------------------
\* The social-post extractor
\* ---------------------------------------------------------------------

LoginRequiredMsg == <<"T", "w", "i", "t", "t", "e", "r", " ", "r", "e", "q", "u", "i", "r", "e", "s", " ", "l", "o", "g", "i", "n", " ", "t", "o", " ", "v", "i", "e", "w", " ", "t", "h", "i", "s", " ", "c", "o", "n", "t", "e", "n", "t">>

LaunchFailed ==
  /\ browser = NoBrowser /\ initPromise # NoPromise
  /\ launch[initPromise] = "rejected"

\* C33: after a failed launch the next acquireContext launches the engine
\* again: a request that starts while the launch of the current
\* initialization is rejected starts a new initialization.
C33_RelaunchAfterFailure ==
  [][\A c \in Callers :
       (pc[c] = "idle" /\ pc'[c] # "idle" /\ LaunchFailed)
         => (initPromise' # initPromise /\ launch'[initPromise'] = "pending")]_vars

\* GET /health: degraded when the pool's status is error.
healthStatus ==
  IF getStatus.status = "error" THEN "degraded" ELSE "operational"

\* C36: getStatus().status is ready only while the engine held is running,
\* initializing only while a launch is in flight, and error with lastError
\* set after a launch has failed, so that /health then reports degraded.
C36_StatusReflectsEngine ==
  /\ getStatus.status = "ready" => browser \in engines
  /\ getStatus.status = "initializing"
       => \E p \in Launches : launch[p] = "pending"
  /\ LaunchFailed
       => /\ getStatus.status = "error"
          /\ getStatus.lastError # "undefined"
          /\ healthStatus = "degraded"

\* ---------------------------------------------------------------------
\* Cleanup with calls in flight
\* ---------------------------------------------------------------------

\* C35: when a cleanup() resolves the pool holds no session and no engine
\* and no initialization is pending, and no engine comes to the pool
\* afterwards from an initialization that a cleanup has dropped: a launch
\* that resolves is the launch of the current initialization.
C35_EmptyAfterCleanup ==
  [][/\ \A k \in Cleaners :
          (cpc[k] # "done" /\ cpc'[k] = "done")
            => /\ DOMAIN contexts' = {} /\ browser' = NoBrowser
               /\ initPromise' = NoPromise
     /\ \A p \in Launches :
          (launch[p] = "pending" /\ launch'[p] = "resolved")
            => initPromise = p]_vars

(***************************************************************************)
(* The transcript router's cache administration                            *)
(***************************************************************************)

\* clearCache() of services/youtube.ts: it logs and returns; the entries
\* and the counters of utils/cache.ts are as before.
clearCache == UNCHANGED <<cache, hits, misses, ret, trail, setAt, asked>>

\* DELETE /transcript/cache: clearCache(), then the response.
DeleteTranscriptCache ==
  /\ fpc \in {"idle", "done"}
  /\ clearCache
  /\ freq' = [kind |-> "clearCache", valid |-> TRUE]
  /\ fres' = [success |-> TRUE, message |-> "Cache cleared"]
  /\ fpc' = "done"
  /\ calls' = NoCalls
  /\ UNCHANGED <<now, values>>
  /\ UNCHANGED <<poolVars, fetchVars, cpc, keyVars, classifyVars, engineVars,
                 laterVars>>

AdminNext ==
  \/ fetchYouTubeTranscript("video")
  \/ YtDlpSettled
  \/ NpmSettled
  \/ DeleteTranscriptCache
  \/ Tick

SpecAdmin == Init /\ [][AdminNext]_vars

\* C34: after DELETE /transcript/cache has responded `Cache cleared`, no
\* transcript cached before the call is cached any more.
C34_CacheClearedOnDelete ==
  (Returned /\ freq.kind = "clearCache" /\ fres.success)
    => lruIndex(cache, FetchKey.transcript) = 0

(***************************************************************************)
(* One post fetched through urls of different accepted hosts. The urls     *)
(* followed all normalize to https://x.com/foo/status/123, so they share   *)
(* the cache key FetchKey.twitter.                                         *)
(***************************************************************************)

PostUrls ==
  {url \in Urls :
     /\ url.parses /\ url.hostname \in {"x.com", "mobile.twitter.com"}
     /\ parseTwitterUrl(url) # NoTweet
     /\ parseTwitterUrl(url).normalizedUrl = Canonical(<<"f", "o", "o">>, <<"1", "2", "3">>)}

\* The request with the url it was made with.
PostRequest(url) == Spread(TwitterRequest(url), [url |-> url])

\* fetchTwitterContent({url}) up to its first await; a cache hit returns
\* { ...cached, fetchTimeMs }.
FetchPostUrl == \E url \in PostUrls : fetchTwitterContent(PostRequest(url))

\* `await fetchFromNitter(nitterUrl, url, startTime)` settled.
PostNitterSettled ==
  /\ fpc = "nitter"
  /\ calls' = [calls EXCEPT !.primary = @ + 1, !.sessions = @ + 1]
  /\ \E run \in PageRuns :
       LET result == fetchFromNitter(freq.url, run) IN
       Settle(FetchKey.twitter, result, ~IsSuccess(result),
              IF calls.primary + 1 < NitterInstances
              THEN "nitter" ELSE "direct")

\* `await fetchFromTwitterDirect(tweetInfo.normalizedUrl, url, startTime)`
\* settled.
PostDirectSettled ==
  /\ fpc = "direct"
  /\ calls' = [calls EXCEPT !.fallback = @ + 1, !.sessions = @ + 1]
  /\ \E run \in PageRuns :
       Settle(FetchKey.twitter, fetchFromTwitterDirect(freq.url, run),
              FALSE, "done")

PostNext ==
  \/ FetchPostUrl
  \/ PostNitterSettled
  \/ PostDirectSettled
  \/ Tick

SpecPost == Init /\ [][PostNext]_vars

\* C37: the url of every result of fetchTwitterContent is the url of the
\* request that received it, also when the result is served from the
\* cache to a request made with another accepted host.
C37_UrlOfRequest ==
  (Returned /\ freq.kind = "twitter" /\ "url" \in DOMAIN fres)
    => fres.url = freq.url

(***************************************************************************)
(* Concurrent calls of fetchWithYtDlp and the files they share in          *)
(* os.tmpdir(). A file is kept with the call that wrote it; a call         *)
(* remembers the writers of the files it overwrote, read or unlinked.      *)
(***************************************************************************)

MaxCalls == 2

Calls == 1..MaxCalls

VideoIds == {"dQw4w9WgXcQ", "jNQXAC9IVRw"}

NoCall == [pc |-> "idle"]

\* path.join(tempDir, `yt_${videoId}_${Date.now()}`)
tempBase(videoId) == <<videoId, now>>

InFlight(i) == ytdlp[i].pc \notin {"idle", "done"}

\* f.startsWith(tempBasename): the time stamps of the calls followed have
\* the same number of digits, so a name starts with a base only if it was
\* written under that base.
startsWith(f, base) == f.base = base

\* The synchronous head of fetchWithYtDlp, up to `await execAsync(listCmd)`.
startYtDlp(videoId) ==
  [pc |-> "list", videoId |-> videoId, tempBase |-> tempBase(videoId),
   touched |-> {}, success |-> FALSE]

Returns(i, success) ==
  ytdlp' = [ytdlp EXCEPT ![i].pc = "done", ![i].success = success]

BatchUnchanged ==
  /\ UNCHANGED <<uin, vin, vout, tin, tout, rateLimitMap, admitted>>
  /\ UNCHANGED <<poolVars, fetchVars, cpc, cacheVars, keyVars, fetcherVars,
                 classifyVars, engineVars>>

\* GET /transcript: one fetch that missed the cache.
GetTranscript ==
  /\ \E i \in Calls : \E videoId \in VideoIds :
       /\ ytdlp[i].pc = "idle"
       /\ ytdlp' = [ytdlp EXCEPT ![i] = startYtDlp(videoId)]
  /\ UNCHANGED tempDir
  /\ BatchUnchanged

\* POST /transcript/batch: Promise.all(videoIds.map(...)) starts every
\* fetch in one synchronous run, each missing the cache, before any of
\* them settles.
PostBatch ==
  /\ \A i \in Calls : ytdlp[i].pc = "idle"
  /\ \E videoIds \in [Calls -> VideoIds] :
       ytdlp' = [i \in Calls |-> startYtDlp(videoIds[i])]
  /\ UNCHANGED tempDir
  /\ BatchUnchanged

\* `await execAsync(listCmd)` settled: it threw, the listing ended the
\* call, or the call goes on to download.
ListSettled ==
  /\ \E i \in Calls :
       /\ ytdlp[i].pc = "list"
       /\ \/ ytdlp' = [ytdlp EXCEPT ![i].pc = "catch"]
          \/ Returns(i, FALSE)
          \/ ytdlp' = [ytdlp EXCEPT ![i].pc = "download"]
  /\ UNCHANGED tempDir
  /\ BatchUnchanged

\* `await execAsync(fetchCmd)` settled: yt-dlp wrote {tempBase}.en.vtt over
\* whatever was there, wrote nothing, or threw.
DownloadSettled ==
  /\ \E i \in Calls :
       /\ ytdlp[i].pc = "download"
       /\ LET base == ytdlp[i].tempBase
              old == {f \in tempDir : f.base = base} IN
          \/ /\ tempDir' = (tempDir \ old) \cup {[base |-> base, by |-> i]}
             /\ ytdlp' = [ytdlp EXCEPT
                            ![i].pc = "readdir",
                            ![i].touched = @ \cup {f.by : f \in old}]
          \/ /\ ytdlp' = [ytdlp EXCEPT ![i].pc = "readdir"]
             /\ UNCHANGED tempDir
          \/ /\ ytdlp' = [ytdlp EXCEPT ![i].pc = "catch"]
             /\ UNCHANGED tempDir
  /\ BatchUnchanged

\* `await readdirAsync(tempDir)` settled and files.find() ran.
ReaddirSettled ==
  /\ \E i \in Calls :
       /\ ytdlp[i].pc = "readdir"
       /\ IF \E f \in tempDir : startsWith(f, ytdlp[i].tempBase)
          THEN ytdlp' = [ytdlp EXCEPT ![i].pc = "read"]
          ELSE Returns(i, FALSE)
  /\ UNCHANGED tempDir
  /\ BatchUnchanged

\* `await readFileAsync(vttPath)` settled: the content of the file now at
\* that path, or ENOENT.
ReadSettled ==
  /\ \E i \in Calls :
       /\ ytdlp[i].pc = "read"
       /\ LET found == {f \in tempDir : startsWith(f, ytdlp[i].tempBase)} IN
          IF found = {}
          THEN ytdlp' = [ytdlp EXCEPT ![i].pc = "catch"]
          ELSE ytdlp' = [ytdlp EXCEPT
                           ![i].pc = "unlink",
                           ![i].touched = @ \cup {f.by : f \in found}]
  /\ UNCHANGED tempDir
  /\ BatchUnchanged

\* `await unlinkAsync(vttPath).catch(() => {})` settled; the call parses
\* what it read and returns.
UnlinkSettled ==
  /\ \E i \in Calls :
       /\ ytdlp[i].pc = "unlink"
       /\ LET found == {f \in tempDir : startsWith(f, ytdlp[i].tempBase)} IN
          /\ tempDir' = tempDir \ found
          /\ ytdlp' = [ytdlp EXCEPT
                         ![i].pc = "done",
                         ![i].success = TRUE,
                         ![i].touched = @ \cup {f.by : f \in found}]
  /\ BatchUnchanged

\* The catch block: every file that starts with the basename is unlinked,
\* then the error result is returned.
CatchSettled ==
  /\ \E i \in Calls :
       /\ ytdlp[i].pc = "catch"
       /\ LET found == {f \in tempDir : startsWith(f, ytdlp[i].tempBase)} IN
          /\ tempDir' = tempDir \ found
          /\ ytdlp' = [ytdlp EXCEPT
                         ![i].pc = "done",
                         ![i].touched = @ \cup {f.by : f \in found}]
  /\ BatchUnchanged

BatchInit == ytdlp = [i \in Calls |-> NoCall] /\ tempDir = {}

BatchNext ==
  \/ GetTranscript
  \/ PostBatch
  \/ ListSettled
  \/ DownloadSettled
  \/ ReaddirSettled
  \/ ReadSettled
  \/ UnlinkSettled
  \/ CatchSettled
  \/ Tick

InitBatch ==
  /\ PoolInit /\ CacheInit /\ KeyIdle /\ FetcherInit /\ ClassifyIdle
  /\ UrlIdle /\ VttIdle /\ TempIdle /\ RateIdle /\ BatchInit

SpecBatch == InitBatch /\ [][BatchNext]_vars

\* C38: two fetches in flight at the same time never have the same
\* temporary file base, and no fetch overwrites, reads or deletes a
\* subtitle file that another fetch downloaded.
C38_OwnTempBase ==
  /\ \A i, j \in Calls :
       (i # j /\ InFlight(i) /\ InFlight(j))
         => ytdlp[i].tempBase # ytdlp[j].tempBase
  /\ \A i \in Calls : ytdlp[i].pc # "idle" => ytdlp[i].touched \subseteq {i}

====
